---- MODULE Spec2Model ----
(***************************************************************************)
(* Model of extras/mmu_toolhead.py (Happy Hare "MMU toolhead"):            *)
(*   - MmuToolHead: the bi-directional sync protocol between the gear rail *)
(*     and the printer's extruder, and set_position;                       *)
(*   - MmuKinematics: limits, check_move, _motor_off, set_position, home;  *)
(*   - MmuHoming.home_rails.                                               *)
(* Every method is a function from a program-state record to a             *)
(* program-state record; an action applies one method call atomically (the *)
(* klippy reactor runs one handler at a time), except home(): home_rails   *)
(* waits on the reactor inside each homing move, so a home() call is one   *)
(* action up to each wait and other calls run in between.  A raised        *)
(* exception is the field err of the record: statements after the raise do *)
(* not run, the mutations before it stay.                                  *)
(*                                                                         *)
(* Positions are integers counting half millimetres, so that the 1.5x      *)
(* of MmuKinematics.home stays integral: the un-homed sentinel (1.0, -1.0) *)
(* of the source is <<2, -2>> here.                                        *)
(*                                                                         *)
(* A stepper holds a stepper-kinematics object, and the object holds the   *)
(* commanded position, the trapq steps are generated from and the step     *)
(* queue they go to.  The source owns one sk_default and one sk_extruder   *)
(* (lines 86, 90) and hands each to several steppers (153, 170, 204), so   *)
(* what one stepper sets on the object it holds is set for every stepper   *)
(* holding that object.  A stepper also records the trapq it was last      *)
(* given: set_trapq returns that record (205), and set_stepper_kinematics  *)
(* applies it to the object it installs.                                   *)
(***************************************************************************)
EXTENDS Integers, Sequences, FiniteSets, TLC

VARIABLES
    gear_motion_queue,        \* MmuToolHead.gear_motion_queue: None or extruder name
    extruder_synced_to_gear,  \* MmuToolHead.extruder_synced_to_gear: None or extruder name
    prev_sk,                  \* MmuToolHead.prev_sk (saved extruder kinematics)
    prev_trapq,               \* MmuToolHead.prev_trapq (saved extruder trapq)
    step_generators,          \* MmuToolHead.step_generators (list of handlers)
    printer_step_generators,  \* printer toolhead's step_generators (list of handlers)
    rail_steppers,            \* rails[i].steppers, i = 1 selector, 2 gear (1-based)
    sk,                       \* stepper -> the stepper-kinematics object it holds
    trapq,                    \* stepper -> the trapq it was last given (its record)
    sk_trapq,                 \* stepper-kinematics object -> trapq it reads
    sk_stepq,                 \* stepper-kinematics object -> stepper whose step queue it fills
    sk_pos,                   \* stepper-kinematics object -> commanded position
    last_position,            \* extruder name -> extruder.last_position
    commanded_pos,            \* MmuToolHead.commanded_pos <<x, y, z, e>>
    limits,                   \* MmuKinematics.limits <<<<min,max>>, <<min,max>>>>
    cfg,                      \* selector rail configuration (fixed at construction)
    sections,                 \* config sections of the two rails: endstop options
    phase,                    \* "config" before MmuKinematics.__init__, then "ready" or "failed"
    rails,                    \* rails[i]: endstops, extra_endstops, virtual_endstops
    mcu_endstops,             \* endstop objects made by setup_pin: pin and steppers
    query_endstops,           \* query_endstops.endstops: registered (endstop, name)
    last_op,                  \* history: the call made by the last step
    last_err,                 \* history: the exception it raised ("" if none)
    events,                   \* history: what the last call did, in order
    homing,                   \* where a home() call waits in a homing move, its locals
    pre_engage                \* history: bindings when the current engagement was requested

vars == <<gear_motion_queue, extruder_synced_to_gear, prev_sk, prev_trapq,
          step_generators, printer_step_generators, rail_steppers, sk, trapq,
          sk_trapq, sk_stepq, sk_pos, last_position, commanded_pos, limits, cfg,
          sections, phase, rails, mcu_endstops, query_endstops,
          last_op, last_err, events, homing, pre_engage>>

----------------------------------------------------------------------------
(* Bounds of the exploration *)

MaxLastPosition == 1       \* extruder.last_position ranges over 0..MaxLastPosition
MaxDepth == 3              \* nested sync calls followed before RecursionError

----------------------------------------------------------------------------
(* Objects of the printer *)

None == "None"

ValidExtruders == {"extruder", "extruder1"}
OtherObjects == {"heater_bed"}
Names == ValidExtruders \cup OtherObjects \cup {"bogus"}

SelectorSteppers == <<"selector">>
GearSteppers == <<"gear", "gear1">>
AllSteppers == {"selector", "gear", "gear1"} \cup ValidExtruders

Range(seq) == {seq[i] : i \in 1..Len(seq)}

sk_default == <<"sk_default", "">>
sk_extruder == <<"sk_extruder", "">>
OwnSk(s) == <<"own", s>>
Unset == <<"unset", "">>
mmu_trapq == <<"trapq", "mmu">>
extruder_trapq(name) == <<"trapq", name>>

\* The stepper-kinematics objects: the two the MMU toolhead allocates (lines
\* 86 and 90) and the one each stepper is created with.
SkObjects == {sk_default, sk_extruder} \cup {OwnSk(st) : st \in AllSteppers}

\* stepper.get_commanded_position() of every stepper: the position of the
\* object it holds.
cpos == [st \in AllSteppers |-> sk_pos[sk[st]]]

\* The trapq every stepper's steps are generated from: that of the object it
\* holds.
bound_trapq == [st \in AllSteppers |-> sk_trapq[sk[st]]]

\* The function a stepper-kinematics handle computes.
SkKind(h) ==
    IF h = sk_default THEN "cartesian_y"
    ELSE IF h = sk_extruder THEN "extruder"
    ELSE IF h[2] = "selector" THEN "cartesian_x"
    ELSE IF h[2] \in Range(GearSteppers) THEN "cartesian_y"
    ELSE "extruder"

\* stepper.set_position(coord): the coordinate the kinematics reads.
CalcPosition(h, coord) ==
    IF SkKind(h) = "cartesian_y" THEN coord[2] ELSE coord[1]

lookup_object(name) ==
    IF name \in ValidExtruders \cup OtherObjects THEN name ELSE None

IsPrinterExtruder(obj) == obj \in ValidExtruders

----------------------------------------------------------------------------
(* The program state as one record, and statement-level helpers *)

Cur ==
    [gear_motion_queue |-> gear_motion_queue,
     extruder_synced_to_gear |-> extruder_synced_to_gear,
     prev_sk |-> prev_sk,
     prev_trapq |-> prev_trapq,
     step_generators |-> step_generators,
     printer_step_generators |-> printer_step_generators,
     rail_steppers |-> rail_steppers,
     sk |-> sk,
     trapq |-> trapq,
     sk_trapq |-> sk_trapq,
     sk_stepq |-> sk_stepq,
     sk_pos |-> sk_pos,
     last_position |-> last_position,
     commanded_pos |-> commanded_pos,
     limits |-> limits,
     cfg |-> cfg,
     rails |-> rails,
     mcu_endstops |-> mcu_endstops,
     query_endstops |-> query_endstops,
     homing |-> homing,
     events |-> <<>>,
     err |-> ""]

Raise(s, msg) == [s EXCEPT !.err = msg]

\* An entry of the call log: what was done (e), to what (a), by which
\* nested sync invocation (call: 0 the outer one), with which numbers (v).
EvV(s, e, a, call, v) ==
    [s EXCEPT !.events = Append(@, [e |-> e, a |-> a, call |-> call, v |-> v])]

Ev(s, e, a, call) == EvV(s, e, a, call, <<>>)

RECURSIVE ForEach(_, _, _)
ForEach(Op(_, _), s, seq) ==
    IF seq = <<>> THEN s ELSE ForEach(Op, Op(s, Head(seq)), Tail(seq))

\* list.remove(x): drops the first occurrence (the caller checks membership).
ListRemove(list, x) ==
    LET i == CHOOSE k \in 1..Len(list) :
                 list[k] = x /\ \A j \in 1..(k - 1) : list[j] # x
    IN  SubSeq(list, 1, i - 1) \o SubSeq(list, i + 1, Len(list))

\* toolhead.flush_step_generation() of the printer toolhead ("printer") or
\* of the MMU toolhead ("mmu").
flush_step_generation(s, who, call) == Ev(s, "flush_step_generation", who, call)

\* stepper.get_commanded_position(): read from the object the stepper holds
get_commanded_position(s, st) == s.sk_pos[s.sk[st]]

\* stepper.set_stepper_kinematics(h): the stepper holds h from now on; h is
\* pointed at this stepper's step queue and at the trapq the stepper was
\* last given, whichever steppers hold h already.
set_stepper_kinematics(s, st, h, call) ==
    Ev([s EXCEPT !.sk[st] = h,
                 !.sk_stepq[h] = st,
                 !.sk_trapq[h] = s.trapq[st]],
       "set_stepper_kinematics", st, call)

\* stepper.set_trapq(tq): binds tq on the object the stepper holds now and
\* records it on the stepper.
stepper_set_trapq(s, st, tq, call) ==
    Ev([s EXCEPT !.sk_trapq[s.sk[st]] = tq,
                 !.trapq[st] = tq],
       "set_trapq", st, call)

\* stepper.set_position(coord): sets the position of the object the stepper
\* holds.
stepper_set_position(s, st, coord) ==
    [s EXCEPT !.sk_pos[s.sk[st]] = CalcPosition(s.sk[st], coord)]

\* rail.set_position(coord): every stepper of the rail
rail_set_position(s, rail, coord) ==
    LET one(t, st) == stepper_set_position(t, st, coord)
    IN  ForEach(one, s, s.rail_steppers[rail])

\* rail.set_trapq(tq): every stepper of the rail
rail_set_trapq(s, rail, tq, call) ==
    LET one(t, st) == stepper_set_trapq(t, st, tq, call)
    IN  ForEach(one, s, s.rail_steppers[rail])

\* rail.get_commanded_position(): the rail's first stepper
rail_get_commanded_position(s, rail) ==
    get_commanded_position(s, s.rail_steppers[rail][1])

\* Mutant: the handler is registered with the printer toolhead without being
\* removed from the MMU toolhead.
ShiftToPrinter_NoRemove(s, st, call) ==
    IF s.err # "" THEN s
    ELSE Ev([s EXCEPT !.printer_step_generators = Append(@, st)],
            "register_printer", st, call)

\* self.step_generators.remove(handler); printer_toolhead.register_step_generator(handler)
ShiftToPrinter(s, st, call) ==
    IF s.err # "" THEN s
    ELSE IF st \notin Range(s.step_generators) THEN Raise(s, "ValueError")
    ELSE Ev(Ev([s EXCEPT !.step_generators = ListRemove(@, st),
                         !.printer_step_generators = Append(@, st)],
               "remove_mmu", st, call), "register_printer", st, call)

\* printer_toolhead.step_generators.remove(handler); self.register_step_generator(handler)
ShiftToMmu(s, st, call) ==
    IF s.err # "" THEN s
    ELSE IF st \notin Range(s.printer_step_generators) THEN Raise(s, "ValueError")
    ELSE Ev(Ev([s EXCEPT !.printer_step_generators = ListRemove(@, st),
                         !.step_generators = Append(@, st)],
               "remove_printer", st, call), "register_mmu", st, call)

\* Mutant: the MMU toolhead's own flush is forgotten.
FlushBoth_PrinterOnly(s, call) == flush_step_generation(s, "printer", call)

\* The two flushes at the head of both sync methods.
FlushBoth(s, call) ==
    flush_step_generation(flush_step_generation(s, "printer", call), "mmu", call)

----------------------------------------------------------------------------
(* MmuToolHead.sync_gear_to_extruder / sync_extruder_to_gear *)

GearRail == 2
SelectorRail == 1
RailName(rail) == IF rail = SelectorRail THEN "selector" ELSE "gear"

is_gear_synced_to_extruder(s) == s.gear_motion_queue # None
is_extruder_synced_to_gear(s) == s.extruder_synced_to_gear # None

\* Mutant: the position goes into the y slot (the line the source has
\* commented out), which the extruder kinematics does not read.
GearSync_WrongCoord(s, extruder_name, call) ==
    LET kin(t, st) == set_stepper_kinematics(t, st, sk_extruder, call)
        shift(t, st) == ShiftToPrinter(t, st, call)
        steppers == s.rail_steppers[GearRail]
        s1 == ForEach(kin, s, steppers)
        s2 == rail_set_trapq(s1, GearRail, extruder_trapq(extruder_name), call)
        s3 == rail_set_position(s2, GearRail,
                                <<0, s2.last_position[extruder_name], 0>>)
        s4 == ForEach(shift, s3, steppers)
    IN  IF s4.err # "" THEN s4
        ELSE [s4 EXCEPT !.gear_motion_queue = extruder_name]

\* "Syncing" branch of sync_gear_to_extruder, after validation.
GearSync(s, extruder_name, call) ==
    LET kin(t, st) == set_stepper_kinematics(t, st, sk_extruder, call)
        shift(t, st) == ShiftToPrinter(t, st, call)
        steppers == s.rail_steppers[GearRail]
        s1 == ForEach(kin, s, steppers)
        s2 == rail_set_trapq(s1, GearRail, extruder_trapq(extruder_name), call)
        s3 == rail_set_position(s2, GearRail,
                                <<s2.last_position[extruder_name], 0, 0>>)
        s4 == ForEach(shift, s3, steppers)
    IN  IF s4.err # "" THEN s4
        ELSE [s4 EXCEPT !.gear_motion_queue = extruder_name]

\* Mutant: the gear rail is not pointed back at the MMU toolhead's trapq.
GearUnsync_NoTrapq(s, call) ==
    LET kin(t, st) == set_stepper_kinematics(t, st, sk_default, call)
        shift(t, st) == ShiftToMmu(t, st, call)
        steppers == s.rail_steppers[GearRail]
        s1 == ForEach(kin, s, steppers)
        s3 == rail_set_position(s1, GearRail, <<0, 0, 0>>)
        s4 == ForEach(shift, s3, steppers)
    IN  IF s4.err # "" THEN s4
        ELSE [s4 EXCEPT !.gear_motion_queue = None]

\* Mutant: the gear rail keeps the position it had while synced.
GearUnsync_KeepPosition(s, call) ==
    LET kin(t, st) == set_stepper_kinematics(t, st, sk_default, call)
        shift(t, st) == ShiftToMmu(t, st, call)
        steppers == s.rail_steppers[GearRail]
        s1 == ForEach(kin, s, steppers)
        s2 == rail_set_trapq(s1, GearRail, mmu_trapq, call)
        s4 == ForEach(shift, s2, steppers)
    IN  IF s4.err # "" THEN s4
        ELSE [s4 EXCEPT !.gear_motion_queue = None]

\* "Unsyncing" branch of sync_gear_to_extruder.
GearUnsync(s, call) ==
    LET kin(t, st) == set_stepper_kinematics(t, st, sk_default, call)
        shift(t, st) == ShiftToMmu(t, st, call)
        steppers == s.rail_steppers[GearRail]
        s1 == ForEach(kin, s, steppers)
        s2 == rail_set_trapq(s1, GearRail, mmu_trapq, call)
        s3 == rail_set_position(s2, GearRail, <<0, 0, 0>>)
        s4 == ForEach(shift, s3, steppers)
    IN  IF s4.err # "" THEN s4
        ELSE [s4 EXCEPT !.gear_motion_queue = None]

\* Mutant: the extruder stepper is left on the extruder's trapq.
ExtruderSync_NoTrapq(s, extruder_name, call) ==
    LET st == extruder_name
        s1 == Ev([s EXCEPT !.rail_steppers[GearRail] = Append(@, st)],
                 "steppers_append", st, call)
        s2 == [set_stepper_kinematics(s1, st, sk_default, call)
                  EXCEPT !.prev_sk = s1.sk[st]]
        s3 == [s2 EXCEPT !.prev_trapq = s2.trapq[st]]
        s4 == stepper_set_position(s3, st,
                  <<0, rail_get_commanded_position(s3, GearRail), 0>>)
        s5 == ShiftToMmu(s4, st, call)
    IN  IF s5.err # "" THEN s5
        ELSE [s5 EXCEPT !.extruder_synced_to_gear = extruder_name]

\* "Syncing" branch of sync_extruder_to_gear, after validation.
ExtruderSync(s, extruder_name, call) ==
    LET st == extruder_name     \* extruder.extruder_stepper.stepper
        s1 == Ev([s EXCEPT !.rail_steppers[GearRail] = Append(@, st)],
                 "steppers_append", st, call)
        s2 == [set_stepper_kinematics(s1, st, sk_default, call)
                  EXCEPT !.prev_sk = s1.sk[st]]
        s3 == [stepper_set_trapq(s2, st, mmu_trapq, call)
                  EXCEPT !.prev_trapq = s2.trapq[st]]
        s4 == stepper_set_position(s3, st,
                  <<0, rail_get_commanded_position(s3, GearRail), 0>>)
        s5 == ShiftToMmu(s4, st, call)
    IN  IF s5.err # "" THEN s5
        ELSE [s5 EXCEPT !.extruder_synced_to_gear = extruder_name]

\* Mutant: extruder_synced_to_gear is not cleared at the end.
ExtruderUnsync_KeepFlag(s, call) ==
    LET st == s.extruder_synced_to_gear
        s1 == Ev([s EXCEPT !.rail_steppers[GearRail] = SubSeq(@, 1, Len(@) - 1)],
                 "steppers_pop", st, call)
        s2 == stepper_set_trapq(s1, st, s1.prev_trapq, call)
        s3 == set_stepper_kinematics(s2, st, s2.prev_sk, call)
        s4 == stepper_set_position(s3, st, <<0, 0, 0>>)
    IN  ShiftToPrinter(s4, st, call)

\* "Unsyncing" branch of sync_extruder_to_gear.
ExtruderUnsync(s, call) ==
    LET st == s.extruder_synced_to_gear   \* lookup_object(self.extruder_synced_to_gear)
        s1 == Ev([s EXCEPT !.rail_steppers[GearRail] = SubSeq(@, 1, Len(@) - 1)],
                 "steppers_pop", st, call)
        s2 == stepper_set_trapq(s1, st, s1.prev_trapq, call)
        s3 == set_stepper_kinematics(s2, st, s2.prev_sk, call)
        s4 == stepper_set_position(s3, st, <<0, 0, 0>>)
        s5 == ShiftToPrinter(s4, st, call)
    IN  IF s5.err # "" THEN s5
        ELSE [s5 EXCEPT !.extruder_synced_to_gear = None]

\* Python's truth test of a name: None and the empty string are false.
Truthy(name) ==
    name # None /\ name # ""

\* The lookup and isinstance test both methods apply to a name.
IsValidExtruder(extruder_name) ==
    /\ lookup_object(extruder_name) # None
    /\ IsPrinterExtruder(lookup_object(extruder_name))

\* Mutant: neither "already in that state" early return.
GearRequest_NoEarlyReturn(s, extruder_name, call) ==
    IF Truthy(extruder_name)
    THEN IF ~IsValidExtruder(extruder_name)
         THEN Raise(s, "not a valid extruder")
         ELSE GearSync(s, extruder_name, call)
    ELSE GearUnsync(s, call)

\* sync_gear_to_extruder from "if extruder_name:" on (after the flushes).
GearRequest(s, extruder_name, call) ==
    IF Truthy(extruder_name)
    THEN IF Truthy(s.gear_motion_queue) THEN s
         ELSE IF ~IsValidExtruder(extruder_name)
              THEN Raise(s, "not a valid extruder")
              ELSE GearSync(s, extruder_name, call)
    ELSE IF ~Truthy(s.gear_motion_queue) THEN s
         ELSE GearUnsync(s, call)

\* sync_extruder_to_gear from "if extruder_name:" on (after the flushes).
ExtruderRequest(s, extruder_name, call) ==
    IF Truthy(extruder_name)
    THEN IF Truthy(s.extruder_synced_to_gear) THEN s
         ELSE IF ~IsValidExtruder(extruder_name)
              THEN Raise(s, "not a valid extruder")
              ELSE ExtruderSync(s, extruder_name, call)
    ELSE IF ~Truthy(s.extruder_synced_to_gear) THEN s
         ELSE ExtruderUnsync(s, call)

\* The two methods call each other to undo the opposite direction first; the
\* nested invocation is numbered depth + 1 in the call log.
RECURSIVE sync_gear_to_extruder(_, _, _), sync_extruder_to_gear(_, _, _)

sync_gear_to_extruder(s, extruder_name, depth) ==
    IF depth > MaxDepth THEN Raise(s, "RecursionError")
    ELSE
    LET s1 == IF Truthy(s.extruder_synced_to_gear)
              THEN sync_extruder_to_gear(s, None, depth + 1)
              ELSE s
    IN  IF s1.err # "" THEN s1
        ELSE GearRequest(FlushBoth(s1, depth), extruder_name, depth)

sync_extruder_to_gear(s, extruder_name, depth) ==
    IF depth > MaxDepth THEN Raise(s, "RecursionError")
    ELSE
    LET s1 == IF Truthy(s.gear_motion_queue)
              THEN sync_gear_to_extruder(s, None, depth + 1)
              ELSE s
    IN  IF s1.err # "" THEN s1
        ELSE ExtruderRequest(FlushBoth(s1, depth), extruder_name, depth)

----------------------------------------------------------------------------
(* MmuToolHead velocity limits and MmuKinematics *)

gear_max_velocity == 300
gear_max_accel == 500
selector_max_velocity == 250
selector_max_accel == 1500

get_selector_limits == <<selector_max_velocity, selector_max_accel>>
get_gear_limits == <<gear_max_velocity, gear_max_accel>>

\* The un-homed sentinel (1.0, -1.0), in half millimetres.
Unhomed == <<2, -2>>

\* default_position_endstop of both rails (0.); the gear rail is built with
\* need_position_minmax=False, so its range is (0, position_endstop).
default_position_endstop == 0

\* rail.get_range()
get_range(s, rail) ==
    IF rail = SelectorRail
    THEN <<s.cfg.position_min, s.cfg.position_max>>
    ELSE <<0, default_position_endstop>>

\* rail.get_homing_info(): the selector's comes from its configuration; the
\* gear rail has the default endstop position and nothing else configured.
get_homing_info(s, rail) ==
    IF rail = SelectorRail
    THEN [position_endstop |-> s.cfg.position_endstop,
          positive_dir |-> s.cfg.positive_dir,
          retract_dist |-> s.cfg.retract_dist]
    ELSE [position_endstop |-> default_position_endstop,
          positive_dir |-> FALSE,
          retract_dist |-> 0]

\* MmuKinematics.set_position(newpos, homing_axes); axes are 0-based as in
\* the source, rails 1-based.
kin_set_position(s, newpos, homing_axes) ==
    LET one(t, rail) ==
            LET t1 == rail_set_position(t, rail, newpos)
            IN  IF (rail - 1) \in homing_axes
                THEN [t1 EXCEPT !.limits[rail] = get_range(t1, rail)]
                ELSE t1
    IN  ForEach(one, s, <<SelectorRail, GearRail>>)

\* newpos padded with 0. to four entries
Pad4(newpos) == newpos \o [i \in 1..(4 - Len(newpos)) |-> 0]

\* MmuToolHead.set_position(newpos, homing_axes): pad, then ToolHead.set_position
set_position(s, newpos, homing_axes) ==
    LET p == Pad4(newpos)
        s1 == flush_step_generation(s, "mmu", 0)
        s2 == [s1 EXCEPT !.commanded_pos = p]
    IN  EvV(kin_set_position(s2, p, homing_axes), "set_position", "", 0,
            [i \in 1..2 |-> IF (i - 1) \in homing_axes THEN 1 ELSE 0] \o p)

\* Mutant: only the gear axis is reset.
motor_off_GearOnly(s) == [s EXCEPT !.limits[GearRail] = Unhomed]

\* MmuKinematics._motor_off
motor_off(s) == [s EXCEPT !.limits = <<Unhomed, Unhomed>>]

\* A toolhead Move: end position and per-axis displacement.
MakeMove(start_pos, end_pos) ==
    [end_pos |-> end_pos,
     axes_d |-> [i \in 1..4 |-> end_pos[i] - start_pos[i]]]

\* Mutant: the un-homed test is dropped, every failure is "Must home axis first".
check_endstops_NoDistinction(lim, move) ==
    LET out(i) == /\ move.axes_d[i] # 0
                  /\ (move.end_pos[i] < lim[i][1] \/ move.end_pos[i] > lim[i][2])
    IN  IF out(1) \/ out(2) THEN "Must home axis first" ELSE ""

\* MmuKinematics._check_endstops(move): the error raised, "" if none
check_endstops(lim, move) ==
    LET out(i) == /\ move.axes_d[i] # 0
                  /\ (move.end_pos[i] < lim[i][1] \/ move.end_pos[i] > lim[i][2])
        msg(i) == IF lim[i][1] > lim[i][2] THEN "Must home axis first"
                  ELSE "Move out of range"
    IN  IF out(1) THEN msg(1) ELSE IF out(2) THEN msg(2) ELSE ""

\* Mutant: the gear branch is tested before the selector branch.
check_move_GearFirst(lim, move) ==
    LET xpos == move.end_pos[1]
        e == IF xpos < lim[1][1] \/ xpos > lim[1][2]
             THEN check_endstops(lim, move) ELSE ""
    IN  [err |-> e,
         limit_speed |->
             IF e # "" THEN <<>>
             ELSE IF move.axes_d[2] # 0 THEN <<get_gear_limits>>
             ELSE IF move.axes_d[1] # 0 THEN <<get_selector_limits>>
             ELSE <<>>]

\* Mutant: the two-axis test the source has commented out at line 308.
check_move_TwoAxis(lim, move) ==
    LET xpos == move.end_pos[1]
        ypos == move.end_pos[2]
        e == IF \/ xpos < lim[1][1] \/ xpos > lim[1][2]
                \/ ypos < lim[2][1] \/ ypos > lim[2][2]
             THEN check_endstops(lim, move) ELSE ""
    IN  [err |-> e,
         limit_speed |->
             IF e # "" THEN <<>>
             ELSE IF move.axes_d[1] # 0 THEN <<get_selector_limits>>
             ELSE IF move.axes_d[2] # 0 THEN <<get_gear_limits>>
             ELSE <<>>]

\* MmuKinematics.check_move(move): the error raised and the limit_speed calls
check_move(lim, move) ==
    LET xpos == move.end_pos[1]
        e == IF xpos < lim[1][1] \/ xpos > lim[1][2]
             THEN check_endstops(lim, move) ELSE ""
    IN  [err |-> e,
         limit_speed |->
             IF e # "" THEN <<>>
             ELSE IF move.axes_d[1] # 0 THEN <<get_selector_limits>>
             ELSE IF move.axes_d[2] # 0 THEN <<get_gear_limits>>
             ELSE <<>>]

\* Step generation runs on the object of every stepper: an object some
\* stepper holds follows the moves of the trapq it reads.
Follows(s, h, tq) ==
    /\ \E st \in AllSteppers : s.sk[st] = h
    /\ s.sk_trapq[h] = tq

\* The objects reading the MMU toolhead's trapq follow its moves.
FollowMmuMove(s, end_pos) ==
    [s EXCEPT !.sk_pos = [h \in SkObjects |->
        IF Follows(s, h, mmu_trapq) THEN CalcPosition(h, end_pos)
        ELSE s.sk_pos[h]]]

\* ToolHead.move(newpos, speed) of the MMU toolhead
toolhead_move(s, newpos, tag) ==
    LET move == MakeMove(s.commanded_pos, newpos)
        kinematic == \E i \in 1..3 : move.axes_d[i] # 0
        r == check_move(s.limits, move)
        logged(t, i) == EvV(t, "limit_speed", "", 0, r.limit_speed[i])
        s1 == ForEach(logged, s, [i \in 1..Len(r.limit_speed) |-> i])
    IN  IF \A i \in 1..4 : move.axes_d[i] = 0 THEN s
        ELSE IF kinematic /\ r.err # "" THEN Raise(s, r.err)
        ELSE Ev(FollowMmuMove([(IF kinematic THEN s1 ELSE s)
                                  EXCEPT !.commanded_pos = newpos], newpos),
                tag, "", 0)

----------------------------------------------------------------------------
(* get_status *)

\* What an MmuKinematics instance has: the attributes its constructor sets
\* and the methods of the class (it has no base class).
MmuKinematicsAttrs ==
    {"printer", "axes", "rails", "selector_max_velocity", "selector_max_accel",
     "gear_max_velocity", "gear_max_accel", "limits",
     "get_steppers", "calc_position", "set_position", "home", "_motor_off",
     "_check_endstops", "check_move", "get_status"}

\* What an MmuToolHead instance has that get_status reads: its own
\* attributes and methods, and those inherited from ToolHead.
MmuToolHeadAttrs ==
    {"printer", "reactor", "mcu", "commanded_pos", "gear_motion_queue",
     "extruder_synced_to_gear", "trapq", "step_generators", "extruder", "kin",
     "sk_extruder", "sk_default", "print_time", "max_velocity", "max_accel",
     "set_position", "get_position", "get_kinematics", "get_status",
     "is_gear_synced_to_extruder", "is_extruder_synced_to_gear", "is_synced",
     "sync_gear_to_extruder", "sync_extruder_to_gear"}

BoolInt(b) == IF b THEN 1 ELSE 0

\* MmuKinematics.get_status(eventtime): the dict literal evaluates its
\* values in order; self.<name> on a missing attribute raises.  The result
\* is <<selector_homed, gear_synced_to_extruder, extruder_synced_to_gear>>.
kin_get_status(s) ==
    IF \/ "is_gear_synced_to_extruder" \notin MmuKinematicsAttrs
       \/ "is_extruder_synced_to_gear" \notin MmuKinematicsAttrs
    THEN [err |-> "AttributeError", res |-> <<>>]
    ELSE [err |-> "",
          res |-> <<BoolInt(s.limits[SelectorRail][1] <= s.limits[SelectorRail][2]),
                    BoolInt(is_gear_synced_to_extruder(s)),
                    BoolInt(is_extruder_synced_to_gear(s))>>]

\* MmuToolHead.get_status(eventtime): ToolHead.get_status starts from the
\* kinematics' status; then filament_pos is read through self.mmu_toolhead.
get_status(s) ==
    LET k == kin_get_status(s)
    IN  IF k.err # "" THEN Raise(s, k.err)
        ELSE IF "mmu_toolhead" \notin MmuToolHeadAttrs THEN Raise(s, "AttributeError")
        ELSE EvV(s, "status", "", 0, Append(k.res, s.commanded_pos[2]))

----------------------------------------------------------------------------
(* MmuKinematics.home and MmuHoming.home_rails *)

\* A coordinate list with None entries: the 0-based axes that are set, and
\* their values.
Coord(axes, val) == [axes |-> axes, val |-> val]

\* Homing._fill_coord(coord): None entries taken from the toolhead position
fill_coord(s, coord) ==
    [i \in 1..4 |-> IF (i - 1) \in coord.axes THEN coord.val[i]
                    ELSE s.commanded_pos[i]]

Abs(n) == IF n < 0 THEN -n ELSE n

\* The position of a home() call that waits inside a homing move: which
\* wait (pc), the axes asked for and those the loop has not reached (todo),
\* the locals of home_rails, the call's log and starting state, and whether
\* no other callback has run during its waits so far (alone).
NoHoming ==
    [pc |-> "idle", axes |-> <<>>, todo |-> <<>>,
     rail |-> 0, forcepos |-> Coord({}, <<0, 0, 0, 0>>),
     movepos |-> Coord({}, <<0, 0, 0, 0>>), target |-> <<>>, endstops |-> <<>>,
     from |-> <<>>, from_limits |-> <<>>, log |-> <<>>, alone |-> TRUE]

\* HomingMove.homing_move(movepos, speed) up to its wait: the drip move is
\* queued through toolhead.move, then the call waits on the reactor until
\* the endstops report.
homing_move_begin(s, movepos, speed) ==
    toolhead_move(Ev(s, "homing_move", speed, 0), movepos, "drip_move")

\* homing_move after the wait: outcome is what the hardware did; when an
\* endstop triggered the toolhead position is set to the move's end.
homing_move_end(s, movepos, outcome) ==
    IF outcome # "ok" THEN Raise(s, outcome) ELSE set_position(s, movepos, {})

\* The call waits in a homing move towards target.
WaitIn(s, pc, target) ==
    IF s.err # "" THEN s ELSE [s EXCEPT !.homing.pc = pc, !.homing.target = target]

\* Mutant: the extra endstops are returned with the default ones.
get_endstops_WithExtras(s, rail) ==
    LET all == s.rails[rail].endstops \o s.rails[rail].extra_endstops
    IN  [i \in 1..Len(all) |-> all[i].es]

\* rail.get_endstops(), inherited from stepper.PrinterRail: the rail's
\* default endstops (self.endstops), by handle.
get_endstops(s, rail) ==
    LET all == s.rails[rail].endstops
    IN  [i \in 1..Len(all) |-> all[i].es]

\* HomingMove(printer, endstops, toolhead): the endstops the move will watch
HomingMove(s, endstops) == EvV(s, "HomingMove", "", 0, endstops)

\* math.sqrt and the division of line 354, where their results are whole
\* numbers of half millimetres; positions off that grid are not modelled.
Sqrt(n) == CHOOSE r \in 0..n : r * r = n
Quotient(a, b) == CHOOSE q \in (-Abs(a))..Abs(a) : q * b = a

\* Mutant: the second pass re-homes without retracting first.
RetractAndRehome_NoRetract(s, endstops, hi, forcepos, movepos) ==
    WaitIn(homing_move_begin(HomingMove(s, endstops), fill_coord(s, movepos),
                             "second_homing_speed"),
           "move2", fill_coord(s, movepos))

\* Lines 357-363 of home_rails: the retract move, the forced start of the
\* second pass, and the second homing move up to its wait.
Rehome(s, endstops, startpos, homepos) ==
    IF s.err # "" THEN s
    ELSE WaitIn(homing_move_begin(HomingMove(set_position(s, startpos, {}), endstops),
                                  homepos, "second_homing_speed"),
                "move2", homepos)

\* Lines 348-363 of home_rails: retract, home again.
RetractAndRehome(s, endstops, hi, forcepos, movepos) ==
    LET startpos == fill_coord(s, forcepos)
        homepos == fill_coord(s, movepos)
        axes_d == [i \in 1..4 |-> homepos[i] - startpos[i]]
        move_d == Sqrt(axes_d[1] * axes_d[1] + axes_d[2] * axes_d[2]
                          + axes_d[3] * axes_d[3])
        \* retract_r = min(1., retract_dist / move_d); d * retract_r:
        scaled(d) == IF hi.retract_dist >= move_d THEN d
                     ELSE Quotient(d * hi.retract_dist, move_d)
        retractpos == [i \in 1..4 |-> homepos[i] - scaled(axes_d[i])]
        startpos2 == [i \in 1..4 |-> retractpos[i] - scaled(axes_d[i])]
    IN  IF move_d = 0 THEN Raise(s, "ZeroDivisionError")
        ELSE Rehome(toolhead_move(s, retractpos, "move"), endstops, startpos2, homepos)

\* Line 374: any(self.adjust_pos.values())
AnyAdjust(adjust_pos) ==
    \E st \in DOMAIN adjust_pos : adjust_pos[st] # 0

\* Lines 378-380: the commanded position of every stepper of the kinematics
\* plus the offset asked for that stepper (none: 0).
kin_spos(s, adjust_pos) ==
    [st \in UNION {Range(s.rail_steppers[r]) : r \in 1..2} |->
        get_commanded_position(s, st) + (IF st \in DOMAIN adjust_pos THEN adjust_pos[st] ELSE 0)]

\* MmuKinematics.calc_position(stepper_positions): one entry per rail, read
\* under the rail's name, which is the name of its first stepper.
calc_position(s, stepper_positions) ==
    [i \in 1..2 |-> stepper_positions[s.rail_steppers[i][1]]]

\* Line 383: kin.calc_position returns one entry per rail, so a homed axis
\* beyond the second has no entry in newpos.
Committed(s, homing_axes, homepos) ==
    IF 2 \in homing_axes THEN Raise(s, "IndexError")
    ELSE set_position(s, homepos, {})

\* Mutant: the position is committed again whether or not an offset was
\* asked for, and before the end of homing is announced.
HomeComplete_CommitFirst(s, homing_axes, hw) ==
    LET s1 == flush_step_generation(s, "mmu", 0)
        newpos == calc_position(s1, kin_spos(s1, hw.adjust_pos))
        homepos == [i \in 1..4 |-> IF (i - 1) \in homing_axes /\ i <= 2
                                   THEN newpos[i] ELSE s1.commanded_pos[i]]
    IN  Ev(Committed(s1, homing_axes, homepos), "home_rails_end", "", 0)

\* Lines 368-384 of home_rails: completion and homing-offset correction.
HomeComplete(s, homing_axes, hw) ==
    LET s1 == flush_step_generation(s, "mmu", 0)
        s2 == Ev(s1, "home_rails_end", "", 0)
        newpos == calc_position(s2, kin_spos(s2, hw.adjust_pos))
        homepos == [i \in 1..4 |-> IF (i - 1) \in homing_axes /\ i <= 2
                                   THEN newpos[i] ELSE s2.commanded_pos[i]]
    IN  IF AnyAdjust(hw.adjust_pos) THEN Committed(s2, homing_axes, homepos)
        ELSE s2

\* Lines 340-346 of home_rails, from the forced position to the wait of the
\* first homing move.
Approach(s, rail, startpos, homepos, homing_axes) ==
    LET s1 == set_position(s, startpos, homing_axes)
        endstops == get_endstops(s, rail)
    IN  WaitIn([homing_move_begin(HomingMove(s1, endstops), homepos, "speed")
                   EXCEPT !.homing.endstops = endstops],
               "move1", homepos)

\* MmuHoming.home_rails(rails, forcepos, movepos), up to the wait of the
\* first homing move (lines 335-346).
home_rails(s, rail, forcepos, movepos) ==
    LET s0 == Ev([s EXCEPT !.homing.rail = rail,
                           !.homing.forcepos = forcepos,
                           !.homing.movepos = movepos],
                 "home_rails_begin", RailName(rail), 0)
    IN  Approach(s0, rail, fill_coord(s, forcepos), fill_coord(s, movepos),
                 forcepos.axes \cap {0, 1, 2})

\* Lines 348 and 369 of home_rails, once the first homing move has triggered.
SecondPass(s, hi, hw) ==
    IF s.err # "" THEN s
    ELSE IF hi.retract_dist # 0
    THEN RetractAndRehome(s, s.homing.endstops, hi, s.homing.forcepos,
                          s.homing.movepos)
    ELSE HomeComplete(s, s.homing.forcepos.axes \cap {0, 1, 2}, hw)

\* home_rails from the end of the first wait (line 346 on); hw is what the
\* hardware did.
home_rails_approached(s, hw) ==
    SecondPass(homing_move_end([s EXCEPT !.homing.pc = "idle"], s.homing.target,
                               hw.move1),
               get_homing_info(s, s.homing.rail), hw)

\* Lines 364-384 of home_rails, once the second homing move has triggered.
CheckNoMovement(s, hw) ==
    IF s.err # "" THEN s
    ELSE IF hw.no_movement THEN Raise(s, "Endstop still triggered after retract")
    ELSE HomeComplete(s, s.homing.forcepos.axes \cap {0, 1, 2}, hw)

\* home_rails from the end of the second wait (line 363 on).
home_rails_rehomed(s, hw) ==
    CheckNoMovement(homing_move_end([s EXCEPT !.homing.pc = "idle"],
                                    s.homing.target, hw.move2),
                    hw)

\* Mutant: the safety test lets the gear axis through.
HomeAxis_GearToo(s, axis) ==
    IF s.err # "" THEN s
    ELSE IF s.homing.pc # "idle" THEN [s EXCEPT !.homing.todo = Append(@, axis)]
    ELSE IF axis \notin {0, 1} THEN s
    ELSE
    LET rail == axis + 1
        s1 == Ev(Ev(s, "get_range", RailName(rail), 0),
                 "get_homing_info", RailName(rail), 0)
        r == get_range(s, rail)
        hi == get_homing_info(s, rail)
        pe == hi.position_endstop
        force == IF hi.positive_dir
                 THEN pe - (3 * (pe - r[1])) \div 2
                 ELSE pe + (3 * (r[2] - pe)) \div 2
        homepos == Coord({axis}, [i \in 1..4 |-> IF i = rail THEN pe ELSE 0])
        forcepos == Coord({axis}, [i \in 1..4 |-> IF i = rail THEN force ELSE 0])
    IN  home_rails(s1, rail, forcepos, homepos)

\* Mutant: the pre-position is measured from the nearer bound of the range.
HomeAxis_NearerBound(s, axis) ==
    IF s.err # "" THEN s
    ELSE IF s.homing.pc # "idle" THEN [s EXCEPT !.homing.todo = Append(@, axis)]
    ELSE IF axis # 0 THEN s
    ELSE
    LET rail == axis + 1
        s1 == Ev(Ev(s, "get_range", RailName(rail), 0),
                 "get_homing_info", RailName(rail), 0)
        r == get_range(s, rail)
        hi == get_homing_info(s, rail)
        pe == hi.position_endstop
        near == IF pe - r[1] <= r[2] - pe THEN pe - r[1] ELSE r[2] - pe
        force == IF hi.positive_dir
                 THEN pe - (3 * near) \div 2
                 ELSE pe + (3 * near) \div 2
        homepos == Coord({axis}, [i \in 1..4 |-> IF i = rail THEN pe ELSE 0])
        forcepos == Coord({axis}, [i \in 1..4 |-> IF i = rail THEN force ELSE 0])
    IN  home_rails(s1, rail, forcepos, homepos)

\* One iteration of the loop of MmuKinematics.home, axis 0-based.  While
\* home_rails waits the loop stands still: the axes it has not reached are
\* kept for when the wait ends.
HomeAxis(s, axis) ==
    IF s.err # "" THEN s
    ELSE IF s.homing.pc # "idle" THEN [s EXCEPT !.homing.todo = Append(@, axis)]
    ELSE IF axis # 0 THEN s
    ELSE
    LET rail == axis + 1
        s1 == Ev(Ev(s, "get_range", RailName(rail), 0),
                 "get_homing_info", RailName(rail), 0)
        r == get_range(s, rail)
        hi == get_homing_info(s, rail)
        pe == hi.position_endstop
        force == IF hi.positive_dir
                 THEN pe - (3 * (pe - r[1])) \div 2
                 ELSE pe + (3 * (r[2] - pe)) \div 2
        homepos == Coord({axis}, [i \in 1..4 |-> IF i = rail THEN pe ELSE 0])
        forcepos == Coord({axis}, [i \in 1..4 |-> IF i = rail THEN force ELSE 0])
    IN  home_rails(s1, rail, forcepos, homepos)

\* The loop of MmuKinematics.home over the axes it has not reached.
HomeLoop(s, axes) ==
    LET one(t, axis) == HomeAxis(t, axis)
    IN  IF s.err # "" \/ s.homing.pc # "idle" THEN s
        ELSE ForEach(one, [s EXCEPT !.homing.todo = <<>>], axes)

\* MmuKinematics.home(homing_state), up to its first wait or to its end;
\* axes = homing_state.get_axes()
home(s, axes) ==
    HomeLoop([s EXCEPT !.homing = [NoHoming EXCEPT !.axes = axes,
                                                   !.from = s.commanded_pos,
                                                   !.from_limits = s.limits]],
             axes)

\* MmuKinematics.home from the end of a wait to the next wait or to its end.
home_resumed(s, hw) ==
    HomeLoop(IF s.homing.pc = "move1" THEN home_rails_approached(s, hw)
             ELSE home_rails_rehomed(s, hw),
             s.homing.todo)

----------------------------------------------------------------------------
(* MmuPrinterRail and MmuLookupMultiRail *)

\* The handle of MmuPrinterRail.MockEndstop; the endstops made by
\* pins.setup_pin are numbered from 1 in the order they are made.
MockEndstop == 0

\* Pin descriptions that contain 'virtual_endstop', and those that do not.
VirtualPins ==
    {"tmc2209_stepper_mmu_gear:virtual_endstop",
     "tmc2209_stepper_mmu_gear_1:virtual_endstop",
     "tmc2209_extruder:virtual_endstop"}
IsVirtualPin(pin) == pin \in VirtualPins

\* What line 433 raises: `self.config` is set neither by MmuPrinterRail nor
\* by stepper.PrinterRail, so evaluating `self.config.error` fails before
\* the configuration error is built.
MismatchError == "AttributeError"

\* A rail before its constructor has run.
NoRail == [endstops |-> <<>>, extra_endstops |-> <<>>, virtual_endstops |-> <<>>]

\* ppins.setup_pin('endstop', pin): a new endstop object, its handle
setup_pin(s, pin) ==
    [s EXCEPT !.mcu_endstops = Append(@, [pin |-> pin, steppers |-> <<>>])]

\* mcu_endstop.add_stepper(stepper); MockEndstop.add_stepper does nothing
add_stepper(s, es, st) ==
    IF es = MockEndstop \/ st \in Range(s.mcu_endstops[es].steppers) THEN s
    ELSE [s EXCEPT !.mcu_endstops[es].steppers = Append(@, st)]

\* query_endstops.register_endstop(mcu_endstop, name)
register_endstop(s, es, name) ==
    [s EXCEPT !.query_endstops = Append(@, [es |-> es, name |-> name])]

\* MmuPrinterRail.is_endstop_virtual(name)
is_endstop_virtual(s, rail, name) ==
    IF Truthy(name)
    THEN name \in Range(s.rails[rail].virtual_endstops)
    ELSE FALSE

\* Lines 447-448 of add_extra_endstop
RegisterUnlessVirtual(s, rail, es, name, register) ==
    IF register /\ ~is_endstop_virtual(s, rail, name)
    THEN register_endstop(s, es, name)
    ELSE s

\* MmuPrinterRail.add_extra_endstop(pin, name, register=True)
add_extra_endstop(s, rail, pin, name, register) ==
    LET es == Len(s.mcu_endstops) + 1      \* the endstop setup_pin makes
        one(t, st) == add_stepper(t, es, st)
    IN  RegisterUnlessVirtual(
            ForEach(one,
                    [setup_pin(s, pin) EXCEPT !.rails[rail].extra_endstops =
                                                  Append(@, [es |-> es, name |-> name])],
                    s.rail_steppers[rail]),
            rail, es, name, register)

\* stepper.PrinterRail.add_extra_stepper(config), the base-class method
\* called at line 426: the new stepper joins the rail and is put on the
\* primary endstop, or on the endstop of its own endstop_pin, which is made
\* and registered under the stepper's name when the pin is new to the rail.
PrinterRail_add_extra_stepper(s, rail, section, st) ==
    LET s1 == [s EXCEPT !.rail_steppers[rail] = Append(@, st)]
        endstops == s.rails[rail].endstops
        known == {i \in 1..Len(endstops) :
                     /\ endstops[i].es # MockEndstop
                     /\ s.mcu_endstops[endstops[i].es].pin = section.endstop_pin}
        es == Len(s.mcu_endstops) + 1
    IN  IF endstops # <<>> /\ section.endstop_pin = None
        THEN add_stepper(s1, endstops[1].es, st)
        ELSE IF section.endstop_pin = None
        THEN Raise(s1, "Option 'endstop_pin' must be specified")
        ELSE IF known = {}
        THEN add_stepper(
                 register_endstop(
                     [setup_pin(s1, section.endstop_pin)
                         EXCEPT !.rails[rail].endstops = Append(@, [es |-> es, name |-> st])],
                     es, st),
                 es, st)
        ELSE add_stepper(s1, endstops[CHOOSE i \in known : TRUE].es, st)

\* Lines 421-425 of add_extra_stepper: a mock default endstop for a rail
\* that is being constructed without one.
MockIfNone(s, rail, section, in_init) ==
    IF in_init /\ s.rails[rail].endstops = <<>> /\ section.endstop_pin = None
    THEN [s EXCEPT !.rails[rail].endstops = <<[es |-> MockEndstop, name |-> "mock"]>>]
    ELSE s

\* Line 437: the name of a virtual pin is recorded.
RecordIfVirtual(s, rail, pin, name) ==
    IF IsVirtualPin(pin)
    THEN [s EXCEPT !.rails[rail].virtual_endstops = Append(@, name)]
    ELSE s

\* Lines 428-438 of add_extra_stepper: the section's extra endstops.
ExtraEndstops(s, rail, section) ==
    LET pins == section.extra_endstop_pins
        names == section.extra_endstop_names
        one(t, idx) ==
            IF t.err # "" THEN t
            ELSE add_extra_endstop(RecordIfVirtual(t, rail, pins[idx], names[idx]),
                                   rail, pins[idx], names[idx], TRUE)
    IN  IF s.err # "" THEN s
        ELSE IF pins = <<>> THEN s
        ELSE IF Len(pins) # Len(names) THEN Raise(s, MismatchError)
        ELSE ForEach(one, s, [i \in 1..Len(pins) |-> i])

\* MmuPrinterRail.add_extra_stepper(config)
add_extra_stepper(s, rail, section, st, in_init) ==
    ExtraEndstops(
        PrinterRail_add_extra_stepper(MockIfNone(s, rail, section, in_init),
                                      rail, section, st),
        rail, section)

\* qee.pop()
PopRegistered(s) ==
    IF s.query_endstops # <<>>
    THEN [s EXCEPT !.query_endstops = SubSeq(@, 1, Len(@) - 1)]
    ELSE s

\* Lines 400-412 of MmuPrinterRail.__init__: the default endstop is renamed
\* when endstop_pin and endstop_name are both given and neither is empty
\* (line 403 tests their truth).
RenameDefault(s, rail, section) ==
    IF s.err # "" THEN s
    ELSE IF Truthy(section.endstop_pin) /\ Truthy(section.endstop_name)
    THEN IF IsVirtualPin(section.endstop_pin)
         THEN Raise(PopRegistered(s), "NameError")    \* line 410: `name` is not defined
         ELSE register_endstop(PopRegistered(s), s.rails[rail].endstops[1].es,
                               section.endstop_name)
    ELSE s

\* MmuPrinterRail.__init__(config): the base constructor adds the section's
\* own stepper through add_extra_stepper.
MmuPrinterRail(s, rail, section, st) ==
    RenameDefault(
        add_extra_stepper([s EXCEPT !.rails[rail] = NoRail, !.rail_steppers[rail] = <<>>],
                          rail, section, st, TRUE),
        rail, section)

\* The steppers the sections of a rail configure, in section order.
SectionSteppers(rail) == IF rail = SelectorRail THEN SelectorSteppers ELSE GearSteppers

\* MmuLookupMultiRail(config): the rail of the first section, then one
\* add_extra_stepper per numbered section that exists.
MmuLookupMultiRail(s, rail, secs) ==
    LET one(t, i) == IF t.err # "" THEN t
                     ELSE add_extra_stepper(t, rail, secs[i],
                                            SectionSteppers(rail)[i], FALSE)
    IN  ForEach(one, MmuPrinterRail(s, rail, secs[1], SectionSteppers(rail)[1]),
                [i \in 1..(Len(secs) - 1) |-> i + 1])

\* Lines 250-255 of MmuKinematics.__init__: every stepper gets its
\* kinematics, the MMU toolhead's trapq, and its step generator registered.
BindSteppers(s) ==
    LET bind(t, st) == [t EXCEPT !.sk[st] = OwnSk(st),
                                 !.trapq[st] = mmu_trapq,
                                 !.sk_trapq[OwnSk(st)] = mmu_trapq,
                                 !.step_generators = Append(@, st)]
    IN  IF s.err # "" THEN s
        ELSE ForEach(bind, s, s.rail_steppers[SelectorRail] \o s.rail_steppers[GearRail])

\* MmuKinematics.__init__, lines 249-255: both rails, then their steppers.
MmuKinematics(s, secs) ==
    LET rail(t, r) == IF t.err # "" THEN t ELSE MmuLookupMultiRail(t, r, secs[r])
    IN  BindSteppers(ForEach(rail, s, <<SelectorRail, GearRail>>))

----------------------------------------------------------------------------
(* Construction *)

\* Selector rail configurations stepper.PrinterRail accepts: positions in
\* half millimetres (whole millimetres configured), position_min <=
\* position_endstop <= position_max, homing towards the endstop.
MaxSelectorMM == 2
RetractMM == 1

RailConfigs ==
    {c \in [position_min : {0},
            position_max : {2 * MaxSelectorMM},
            position_endstop : {2 * m : m \in 0..MaxSelectorMM},
            positive_dir : BOOLEAN,
            retract_dist : {0, 2 * RetractMM}] :
        /\ ~(c.positive_dir /\ c.position_endstop = c.position_min)
        /\ ~(~c.positive_dir /\ c.position_endstop = c.position_max)}

EndConfigs == {c \in RailConfigs : c.position_endstop \in {c.position_min, c.position_max}}

\* Config sections of a rail: endstop_pin and endstop_name (None when not
\* given), extra_endstop_pins and extra_endstop_names (empty when not given).
Section(pin, name, pins, names) ==
    [endstop_pin |-> pin, endstop_name |-> name,
     extra_endstop_pins |-> pins, extra_endstop_names |-> names]

\* Bounds of the rail configurations: the longest extra_endstop_pins and
\* extra_endstop_names lists, and the number of direct add_extra_endstop
\* calls.
MaxExtra == 2
MaxDirect == 1

\* Lists without repetition of at most n elements of S.
RECURSIVE ListsUpTo(_, _)
ListsUpTo(S, n) ==
    IF n = 0 THEN {<<>>}
    ELSE LET shorter == ListsUpTo(S, n - 1)
         IN  shorter \cup UNION {{Append(l, x) : x \in S \ Range(l)} : l \in shorter}

ExtraPins == {"PB2", "tmc2209_stepper_mmu_gear_1:virtual_endstop"}
ExtraNames == <<"mmu_gate", "mmu_gear_touch", "toolhead">>
DirectPins == {"PC1", "tmc2209_extruder:virtual_endstop"}
DirectNames == {"extruder_touch"}

\* The first k extra names, k <= MaxExtra (lists of every length, so that
\* pins and names can differ in length either way).
NameLists == {SubSeq(ExtraNames, 1, k) : k \in 0..MaxExtra}

\* The selector's section: a switch, renamed or not, with or without an
\* extra endstop; and a switch given an empty name.
SelectorSections ==
    {<<Section("PA1", name, x[1], x[2])>> :
        name \in {None, "mmu_sel_home"},
        x \in {<<<<>>, <<>>>>, <<<<"PB1">>, <<"mmu_sel_touch">>>>}}
    \cup {<<Section("PA1", "", <<>>, <<>>)>>}

\* The gear rail's sections: one or two steppers; the first with no
\* endstop, a switch or a virtual endstop, and extra endstop lists of every
\* length up to MaxExtra; the second with or without an extra endstop of its
\* own; and one stepper with a virtual endstop given an empty name.
GearSections ==
    {<<Section(pin, name, pins, names)>> \o more :
        pin \in {None, "PA2", "tmc2209_stepper_mmu_gear:virtual_endstop"},
        name \in {None, "mmu_gear_home"},
        pins \in ListsUpTo(ExtraPins, MaxExtra),
        names \in NameLists,
        more \in {<<>>, <<Section(None, None, <<>>, <<>>)>>,
                  <<Section(None, None, <<"PB3">>, <<"mmu_gear1_touch">>)>>}}
    \cup {<<Section("tmc2209_stepper_mmu_gear:virtual_endstop", "", <<>>, <<>>)>>}

\* adjust_pos as home_rails resets it at line 372: no stepper has an offset.
NoAdjust == [st \in {} |-> 0]
NoHw == [move1 |-> "ok", move2 |-> "ok", no_movement |-> FALSE,
         adjust_pos |-> NoAdjust]

\* History of the last call: its name and arguments, the toolhead position
\* it started from (moves), whether the selector was homed (motor off), and
\* for a home() call what the hardware did and whether it ran alone.
NoOp == [op |-> "init", name |-> None, pos |-> <<>>, from |-> <<>>,
         from_limits |-> <<>>, alone |-> TRUE,
         homing_axes |-> {}, axes |-> <<>>, was_homed |-> FALSE, hw |-> NoHw]

\* What a sync hand-off rebinds.
Bindings(s) ==
    [kind |-> [st \in AllSteppers |-> SkKind(s.sk[st])],
     trapq |-> [st \in AllSteppers |-> s.sk_trapq[s.sk[st]]],
     gear_steppers |-> s.rail_steppers[GearRail],
     mmu |-> Range(s.step_generators),
     printer |-> Range(s.printer_step_generators)]

\* A selector with an endstop switch, two gear steppers without endstops.
DefaultSections ==
    << <<Section("PA1", None, <<>>, <<>>)>>,
       <<Section(None, None, <<>>, <<>>), Section(None, None, <<>>, <<>>)>> >>

\* Every stepper is created with an object of its own, pointed at its step
\* queue; sk_default and sk_extruder are allocated without one.
InitStepq == [h \in SkObjects |-> IF h[1] = "own" THEN h[2] ELSE None]

\* The state MmuKinematics.__init__ starts from at line 249, for selector
\* configuration c: no rail exists yet, the extruders are with the printer
\* toolhead.
Unbuilt(c) ==
    [gear_motion_queue |-> None,
     extruder_synced_to_gear |-> None,
     prev_sk |-> Unset,
     prev_trapq |-> Unset,
     step_generators |-> <<>>,
     printer_step_generators |-> <<"extruder", "extruder1">>,
     rail_steppers |-> <<<<>>, <<>>>>,
     sk |-> [st \in AllSteppers |-> OwnSk(st)],
     trapq |-> [st \in AllSteppers |->
                   IF st \in ValidExtruders THEN extruder_trapq(st) ELSE Unset],
     sk_trapq |-> [h \in SkObjects |->
                      IF h[1] = "own" /\ h[2] \in ValidExtruders
                      THEN extruder_trapq(h[2]) ELSE Unset],
     sk_stepq |-> InitStepq,
     sk_pos |-> [h \in SkObjects |-> 0],
     last_position |-> [e \in ValidExtruders |-> 0],
     commanded_pos |-> <<0, 0, 0, 0>>,
     limits |-> <<Unhomed, Unhomed>>,
     cfg |-> c,
     rails |-> <<NoRail, NoRail>>,
     mcu_endstops |-> <<>>,
     query_endstops |-> <<>>,
     homing |-> NoHoming,
     events |-> <<>>,
     err |-> ""]

\* The rails and their endstops are as construction left them in b.
RailsAre(b) ==
    /\ rails = b.rails
    /\ mcu_endstops = b.mcu_endstops
    /\ query_endstops = b.query_endstops

\* MmuToolHead.__init__ and MmuKinematics.__init__, with the extruders'
\* steppers registered on the printer toolhead.
InitWith(configs) ==
    /\ gear_motion_queue = None
    /\ extruder_synced_to_gear = None
    /\ prev_sk = Unset
    /\ prev_trapq = Unset
    /\ step_generators = SelectorSteppers \o GearSteppers
    /\ printer_step_generators = <<"extruder", "extruder1">>
    /\ rail_steppers = <<SelectorSteppers, GearSteppers>>
    /\ sk = [st \in AllSteppers |-> OwnSk(st)]
    /\ trapq = [st \in AllSteppers |->
                   IF st \in ValidExtruders THEN extruder_trapq(st) ELSE mmu_trapq]
    /\ sk_trapq = [h \in SkObjects |->
                      IF h[1] # "own" THEN Unset
                      ELSE IF h[2] \in ValidExtruders THEN extruder_trapq(h[2])
                      ELSE mmu_trapq]
    /\ sk_stepq = InitStepq
    /\ sk_pos = [h \in SkObjects |-> 0]
    /\ last_position = [e \in ValidExtruders |-> 0]
    /\ commanded_pos = <<0, 0, 0, 0>>
    /\ limits = <<Unhomed, Unhomed>>
    /\ cfg \in configs
    /\ sections = DefaultSections
    /\ phase = "ready"
    /\ RailsAre(MmuKinematics(Unbuilt(cfg), DefaultSections))
    /\ last_op = NoOp
    /\ last_err = ""
    /\ events = <<>>
    /\ homing = NoHoming
    /\ pre_engage = [dir |-> "none", opposite |-> FALSE, b |-> Bindings(Cur)]

----------------------------------------------------------------------------
(* Actions: one per call *)

Install(s) ==
    /\ gear_motion_queue' = s.gear_motion_queue
    /\ extruder_synced_to_gear' = s.extruder_synced_to_gear
    /\ prev_sk' = s.prev_sk
    /\ prev_trapq' = s.prev_trapq
    /\ step_generators' = s.step_generators
    /\ printer_step_generators' = s.printer_step_generators
    /\ rail_steppers' = s.rail_steppers
    /\ sk' = s.sk
    /\ trapq' = s.trapq
    /\ sk_trapq' = s.sk_trapq
    /\ sk_stepq' = s.sk_stepq
    /\ sk_pos' = s.sk_pos
    /\ last_position' = s.last_position
    /\ commanded_pos' = s.commanded_pos
    /\ limits' = s.limits
    /\ cfg' = s.cfg
    /\ rails' = s.rails
    /\ mcu_endstops' = s.mcu_endstops
    /\ query_endstops' = s.query_endstops
    /\ UNCHANGED sections
    /\ events' = s.events
    /\ homing' = s.homing
    /\ last_err' = s.err

\* History of the engagement in force after a sync call that ended in s.
Engagement(s) ==
    LET dir == IF s.gear_motion_queue # None THEN "gear"
               ELSE IF s.extruder_synced_to_gear # None THEN "extruder"
               ELSE "none"
    IN  IF dir = pre_engage.dir THEN pre_engage
        ELSE IF dir = "none"
             THEN [pre_engage EXCEPT !.dir = "none"]
             ELSE [dir |-> dir,
                   opposite |-> pre_engage.dir # "none",
                   b |-> Bindings(Cur)]

SyncGearToExtruder(name) ==
    LET s == sync_gear_to_extruder(Cur, name, 0)
    IN  /\ Install(s)
        /\ last_op' = [NoOp EXCEPT !.op = "sync_gear_to_extruder", !.name = name]
        /\ pre_engage' = Engagement(s)
        /\ UNCHANGED phase

SyncExtruderToGear(name) ==
    LET s == sync_extruder_to_gear(Cur, name, 0)
    IN  /\ Install(s)
        /\ last_op' = [NoOp EXCEPT !.op = "sync_extruder_to_gear", !.name = name]
        /\ pre_engage' = Engagement(s)
        /\ UNCHANGED phase

\* The printer extrudes on extruder `name`: last_position moves to p, and the
\* objects reading that extruder's trapq follow.
ExtruderMove(name, p) ==
    /\ p # last_position[name]
    /\ Install([Cur EXCEPT
           !.last_position[name] = p,
           !.sk_pos = [h \in SkObjects |->
               IF Follows(Cur, h, extruder_trapq(name))
               THEN CalcPosition(h, <<p, 0, 0>>) ELSE sk_pos[h]]])
    /\ last_op' = [NoOp EXCEPT !.op = "extruder_move", !.name = name]
    /\ UNCHANGED <<pre_engage, phase>>

SetPosition(newpos, homing_axes) ==
    /\ Install(set_position(Cur, newpos, homing_axes))
    /\ last_op' = [NoOp EXCEPT !.op = "set_position", !.pos = newpos,
                               !.homing_axes = homing_axes]
    /\ UNCHANGED <<pre_engage, phase>>

MotorOff ==
    /\ Install(motor_off(Cur))
    /\ last_op' = [NoOp EXCEPT !.op = "motor_off",
                               !.was_homed = (limits[1][1] <= limits[1][2])]
    /\ UNCHANGED <<pre_engage, phase>>

Move(newpos) ==
    /\ Install(toolhead_move(Cur, newpos, "move"))
    /\ last_op' = [NoOp EXCEPT !.op = "move", !.pos = newpos,
                               !.from = commanded_pos]
    /\ UNCHANGED <<pre_engage, phase>>

\* The printer goes on with the kinematics built in s, or stops on its error.
InstallBuilt(s) ==
    /\ Install(s)
    /\ phase' = IF s.err = "" THEN "ready" ELSE "failed"

\* MmuKinematics.__init__ on the configured sections.
Construct ==
    /\ phase = "config"
    /\ InstallBuilt(MmuKinematics(Cur, sections))
    /\ last_op' = [NoOp EXCEPT !.op = "construct"]
    /\ UNCHANGED pre_engage

\* The extra endstops added by direct calls so far (they carry DirectNames).
DirectlyAdded(rail) ==
    SelectSeq(rails[rail].extra_endstops, LAMBDA e : e.name \in DirectNames)

\* rail.add_extra_endstop(pin, name, register) called on a built rail, with
\* a pin not yet in use.
AddExtraEndstop(rail, pin, name, register) ==
    /\ phase = "ready"
    /\ Len(DirectlyAdded(SelectorRail)) + Len(DirectlyAdded(GearRail)) < MaxDirect
    /\ \A i \in 1..Len(mcu_endstops) : mcu_endstops[i].pin # pin
    /\ Install(add_extra_endstop(Cur, rail, pin, name, register))
    /\ last_op' = [NoOp EXCEPT !.op = "add_extra_endstop", !.name = name,
                               !.axes = <<rail - 1>>]
    /\ UNCHANGED <<pre_engage, phase>>

GetStatus ==
    /\ Install(get_status(Cur))
    /\ last_op' = [NoOp EXCEPT !.op = "get_status"]
    /\ UNCHANGED <<pre_engage, phase>>

\* A home() call has run to s: it waits in a homing move, keeping its log,
\* or it has returned or raised and nothing of it is kept.
Settled(s) ==
    IF s.err = "" /\ s.homing.pc # "idle"
    THEN [s EXCEPT !.homing.log = s.events]
    ELSE [s EXCEPT !.homing = NoHoming]

\* The step of a home() call that started from `from` and has run to s.
HomeStep(s, from, hw) ==
    /\ Install(Settled(s))
    /\ last_op' = [NoOp EXCEPT
                      !.op = IF s.err = "" /\ s.homing.pc # "idle"
                             THEN "homing" ELSE "home",
                      !.axes = from.axes, !.hw = hw,
                      !.from = from.from, !.from_limits = from.from_limits,
                      !.alone = from.alone]
    /\ UNCHANGED <<pre_engage, phase>>

\* MmuKinematics.home(homing_state) is called; one homing runs at a time.
Home(axes) ==
    /\ homing.pc = "idle"
    /\ HomeStep(home(Cur, axes), home(Cur, axes).homing, NoHw)

\* The fields of hw the wait that is ending decides.
Decides(hw) ==
    IF homing.pc = "move2" THEN hw.move1 = "ok"
    ELSE /\ hw.move2 = "ok" /\ ~hw.no_movement
         /\ cfg.retract_dist # 0 => hw.adjust_pos = NoAdjust

\* The home() call as it resumes: its own log, and whether every wait so
\* far, this one included, passed without another callback.
Resuming ==
    [homing EXCEPT !.alone = @ /\ last_op.op = "homing"]

\* The wait of a homing move ends: the endstops have reported hw, and the
\* home() call runs on to its next wait or to its end.
HomingMoveEnds(hw) ==
    /\ homing.pc # "idle"
    /\ Decides(hw)
    /\ HomeStep(home_resumed([Cur EXCEPT !.events = homing.log,
                                         !.homing = Resuming], hw),
                Resuming, hw)

----------------------------------------------------------------------------
(* Specifications *)

\* set_position inputs used while exercising the sync protocol (two entries:
\* the padding to four is exercised)
SyncPositions == {<<3, 1>>, <<3, 2>>}

Init == InitWith({CHOOSE c \in EndConfigs : c.positive_dir /\ c.retract_dist = 0})

Next ==
    \/ \E name \in Names \cup {None, ""} : SyncGearToExtruder(name)
    \/ \E name \in Names \cup {None, ""} : SyncExtruderToGear(name)
    \/ \E name \in ValidExtruders, p \in 0..MaxLastPosition : ExtruderMove(name, p)
    \/ \E newpos \in SyncPositions : SetPosition(newpos, {})

Spec == Init /\ [][Next]_vars

\* Inputs of the kinematics: positions inside, on and beyond the selector's
\* range, on and beyond the gear's, and one that leaves both rails' axes.
KinPositions == {<<0, 0>>, <<2 * MaxSelectorMM + 1, 1>>}
MoveTargets ==
    {<<x, y, 0, 0>> : x \in {-1, 0, 2 * MaxSelectorMM, 2 * MaxSelectorMM + 1},
                      y \in {0, 1}}
    \cup {<<0, 0, 1, 0>>}
HomeRequests == {<<0>>, <<1>>, <<2>>, <<0, 1, 2>>, <<1, 2>>}
\* What the hardware does during one homing: the outcome of each homing
\* move, whether an endstop is still triggered after the second pass, and
\* the homing offsets the handlers of home_rails_end ask for, by stepper:
\* none, one on the selector's stepper, one on a gear stepper only.  A
\* failure ends the call, so what would have followed it is left at its
\* default.
AdjustPos ==
    {NoAdjust} \cup {[st \in {name} |-> 1] : name \in {"selector", "gear"}}
Hardware ==
    {h \in [move1 : {"ok", "No trigger after full movement"},
            move2 : {"ok", "No trigger after full movement"},
            no_movement : BOOLEAN,
            adjust_pos : AdjustPos] :
        /\ h.move1 # "ok" => h.move2 = "ok"
        /\ (h.move1 # "ok" \/ h.move2 # "ok") => ~h.no_movement
        /\ (h.move1 # "ok" \/ h.move2 # "ok" \/ h.no_movement)
              => h.adjust_pos = NoAdjust}

InitKin == InitWith(EndConfigs)

\* Other callbacks run between homing calls and, in any number, while a
\* homing move waits on the reactor.
NextKin ==
    \/ MotorOff
    \/ \E newpos \in KinPositions, ha \in SUBSET {0, 1} : SetPosition(newpos, ha)
    \/ \E newpos \in MoveTargets : Move(newpos)
    \/ \E axes \in HomeRequests : Home(axes)
    \/ \E hw \in Hardware : HomingMoveEnds(hw)

SpecKin == InitKin /\ [][NextKin]_vars

\* Status queries between sync calls, homing-state changes and motor-off.
NextStatus ==
    \/ GetStatus
    \/ \E name \in ValidExtruders \cup {None} : SyncGearToExtruder(name)
    \/ \E name \in ValidExtruders \cup {None} : SyncExtruderToGear(name)
    \/ \E newpos \in KinPositions, ha \in SUBSET {0, 1} : SetPosition(newpos, ha)
    \/ MotorOff

SpecStatus == Init /\ [][NextStatus]_vars

\* Selector rails whose range starts below or at zero, with the endstop at
\* either bound or strictly inside the range, homed in either direction.
HomeConfigs ==
    {c \in [position_min : {-2, 0},
            position_max : {2 * MaxSelectorMM},
            position_endstop : {2 * m : m \in -1..MaxSelectorMM},
            positive_dir : BOOLEAN,
            retract_dist : {0, 2 * RetractMM}] :
        /\ c.position_min <= c.position_endstop
        /\ ~(c.positive_dir /\ c.position_endstop = c.position_min)
        /\ ~(~c.positive_dir /\ c.position_endstop = c.position_max)}

InitHome == InitWith(HomeConfigs)

\* Homing requests on every hardware outcome, and motor-off between them.
NextHome ==
    \/ MotorOff
    \/ \E axes \in HomeRequests : Home(axes)
    \/ \E hw \in Hardware : HomingMoveEnds(hw)

SpecHome == InitHome /\ [][NextHome]_vars

\* Construction of the rails from every configuration, then direct
\* add_extra_endstop calls, attaching the extruder to the gear rail, and
\* homing the selector.
RailConfig == CHOOSE c \in EndConfigs : ~c.positive_dir /\ c.retract_dist > 0

InitRail ==
    /\ gear_motion_queue = None
    /\ extruder_synced_to_gear = None
    /\ prev_sk = Unset
    /\ prev_trapq = Unset
    /\ step_generators = Unbuilt(RailConfig).step_generators
    /\ printer_step_generators = Unbuilt(RailConfig).printer_step_generators
    /\ rail_steppers = Unbuilt(RailConfig).rail_steppers
    /\ sk = Unbuilt(RailConfig).sk
    /\ trapq = Unbuilt(RailConfig).trapq
    /\ sk_trapq = Unbuilt(RailConfig).sk_trapq
    /\ sk_stepq = Unbuilt(RailConfig).sk_stepq
    /\ sk_pos = Unbuilt(RailConfig).sk_pos
    /\ last_position = Unbuilt(RailConfig).last_position
    /\ commanded_pos = Unbuilt(RailConfig).commanded_pos
    /\ limits = Unbuilt(RailConfig).limits
    /\ cfg = RailConfig
    /\ sections \in {<<sel, gear>> : sel \in SelectorSections, gear \in GearSections}
    /\ phase = "config"
    /\ rails = Unbuilt(RailConfig).rails
    /\ mcu_endstops = <<>>
    /\ query_endstops = <<>>
    /\ last_op = NoOp
    /\ last_err = ""
    /\ events = <<>>
    /\ homing = NoHoming
    /\ pre_engage = [dir |-> "none", opposite |-> FALSE, b |-> Bindings(Cur)]

NextRail ==
    \/ Construct
    \/ \E rail \in {SelectorRail, GearRail}, pin \in DirectPins,
          name \in DirectNames, register \in BOOLEAN :
            AddExtraEndstop(rail, pin, name, register)
    \/ phase = "ready" /\ \E name \in {"extruder", None} : SyncExtruderToGear(name)
    \/ phase = "ready" /\ Home(<<0>>)
    \/ HomingMoveEnds(NoHw)

SpecRail == InitRail /\ [][NextRail]_vars

----------------------------------------------------------------------------
(* Properties of the sync protocol (specification Spec) *)

SyncOps == {"sync_gear_to_extruder", "sync_extruder_to_gear"}

\* Log entries that change a kinematic function, a queue binding, the gear
\* rail's stepper list or a step-generator registration.
IsRebind(ev) ==
    ev.e \in {"set_stepper_kinematics", "set_trapq", "steppers_append",
              "steppers_pop", "remove_mmu", "register_printer",
              "remove_printer", "register_mmu"}

IsFlush(ev, who) == ev.e = "flush_step_generation" /\ ev.a = who

\* The last call rebound something itself (not only through a nested call).
ReboundItself == \E i \in 1..Len(events) : IsRebind(events[i]) /\ events[i].call = 0
ReboundNested == \E i \in 1..Len(events) : IsRebind(events[i]) /\ events[i].call = 1

\* C1: after any sequence of sync_gear_to_extruder / sync_extruder_to_gear
\* calls (valid name, invalid name or None), is_gear_synced_to_extruder() and
\* is_extruder_synced_to_gear() are never both true.
C1_MutualExclusion ==
    ~(is_gear_synced_to_extruder(Cur) /\ is_extruder_synced_to_gear(Cur))

\* The gear was engaged by a call made while the extruder was synced to the
\* gear: the call undid that direction first.
C1_Witness ==
    /\ last_op.op = "sync_gear_to_extruder"
    /\ is_gear_synced_to_extruder(Cur)
    /\ ReboundNested /\ ReboundItself

\* What C2 lists: both sync flags, every stepper's kinematic and queue
\* binding, the gear rail's stepper list and commanded position, both
\* step-generator sets.
C2_State ==
    <<gear_motion_queue, extruder_synced_to_gear, sk, trapq, bound_trapq,
      rail_steppers[GearRail], cpos[rail_steppers[GearRail][1]],
      Range(step_generators), Range(printer_step_generators)>>

\* C2: from every reachable state, a sync call whose name does not resolve
\* to a valid extruder fails with the invalid-target error and mutates no
\* state.
C2_InvalidTargetNoMutation ==
    [][(last_op'.op \in SyncOps /\ last_op'.name \notin ValidExtruders \cup {None})
          => (last_err' = "not a valid extruder" /\ C2_State' = C2_State)]_vars

\* A step that disengages direction op by an explicit call with None.
Disengages(op) ==
    /\ last_op'.op = op
    /\ last_op'.name = None
    /\ IF op = "sync_gear_to_extruder"
       THEN gear_motion_queue # None /\ gear_motion_queue' = None
       ELSE extruder_synced_to_gear # None /\ extruder_synced_to_gear' = None

\* C3 over every engagement: engaging with a valid extruder and then
\* disengaging with None restores kinematic functions, queue bindings, the
\* gear rail's stepper list and step-generator membership to what they were
\* before the engagement, whatever the state the engagement was requested in
\* (also when the engaging call first undoes the opposite direction).
C3_RoundTripAnyStart ==
    [][(\E op \in SyncOps : Disengages(op)) => Bindings(Cur)' = pre_engage.b]_vars

\* C3: the round trip restores every stepper's kinematic function, the
\* queue its steps are generated from, the gear rail's stepper list and
\* step-generator membership to what they were before the engagement.
\* Stated for the engagements requested while the opposite direction was not
\* engaged, where no undo of the opposite direction takes part.
C3_RoundTrip ==
    [][((\E op \in SyncOps : Disengages(op)) /\ ~pre_engage.opposite)
          => Bindings(Cur)' = pre_engage.b]_vars

\* A disengagement has just completed a round trip that started with no
\* direction engaged.
C3_Witness ==
    /\ last_op.op \in SyncOps /\ last_op.name = None
    /\ ReboundItself
    /\ pre_engage.dir = "none" /\ ~pre_engage.opposite
    /\ Bindings(Cur) = pre_engage.b

\* C4: continuity.  Immediately after sync_gear_to_extruder(name) engages,
\* the gear rail's commanded position is that extruder's last_position;
\* immediately after sync_extruder_to_gear(name) engages, the extruder
\* stepper's commanded position is the gear rail's commanded position at the
\* hand-off (the position the gear rail had before the call when the call did
\* not have to undo a gear sync first).
C4_Continuity ==
    [][/\ (last_op'.op = "sync_gear_to_extruder"
             /\ gear_motion_queue = None /\ gear_motion_queue' # None)
          => \A i \in 1..Len(rail_steppers'[GearRail]) :
                cpos'[rail_steppers'[GearRail][i]] = last_position[gear_motion_queue']
       /\ (last_op'.op = "sync_extruder_to_gear"
             /\ extruder_synced_to_gear = None /\ extruder_synced_to_gear' # None)
          => /\ cpos'[extruder_synced_to_gear'] = cpos'[rail_steppers'[GearRail][1]]
             /\ gear_motion_queue = None
                  => cpos'[extruder_synced_to_gear'] = cpos[rail_steppers[GearRail][1]]
      ]_vars

\* The gear has just been engaged to an extruder whose last_position is not
\* the gear rail's reset value.
C4_Witness ==
    /\ last_op.op = "sync_gear_to_extruder"
    /\ gear_motion_queue # None
    /\ ReboundItself
    /\ last_position[gear_motion_queue] = MaxLastPosition
    /\ cpos[rail_steppers[GearRail][1]] = MaxLastPosition

\* C5: in every sync call, each rebinding is preceded, within the invocation
\* that makes it, by a flush of the printer toolhead and of the MMU toolhead,
\* with nothing of another invocation between those flushes and it.
C5_FlushBeforeRebind ==
    last_op.op \in SyncOps =>
        \A i \in 1..Len(events) :
            IsRebind(events[i]) =>
                \E j, k \in 1..(i - 1) :
                    /\ IsFlush(events[j], "printer")
                    /\ IsFlush(events[k], "mmu")
                    /\ \A m \in 1..i : (m >= j \/ m >= k) =>
                           /\ events[m].call = events[i].call
                           /\ (m < j \/ m < k) => ~IsRebind(events[m])

\* A call that undid the opposite direction and then engaged its own: two
\* hand-offs, each behind its own pair of flushes.
C5_Witness ==
    /\ last_op.op \in SyncOps
    /\ ReboundNested /\ ReboundItself
    /\ Len(SelectSeq(events, LAMBDA ev : ev.e = "flush_step_generation")) = 4

\* What C6 lists: sync flags, kinematic and queue bindings, rail positions,
\* the gear rail's stepper list, both step-generator lists.
C6_State ==
    <<gear_motion_queue, extruder_synced_to_gear, sk, trapq, bound_trapq,
      sk_stepq, cpos, rail_steppers, step_generators, printer_step_generators>>

\* A call that requests the state its own direction is already in.
SameStateRequest ==
    \/ /\ last_op'.op = "sync_gear_to_extruder"
       /\ Truthy(last_op'.name) = Truthy(gear_motion_queue)
    \/ /\ last_op'.op = "sync_extruder_to_gear"
       /\ Truthy(last_op'.name) = Truthy(extruder_synced_to_gear)

\* The opposite direction of the call made by this step is engaged.
OppositeEngaged ==
    IF last_op'.op = "sync_gear_to_extruder"
    THEN extruder_synced_to_gear # None
    ELSE gear_motion_queue # None

\* No step generator is registered twice.
NoDoubleRegistration ==
    \A st \in AllSteppers :
        Len(SelectSeq(step_generators \o printer_step_generators,
                      LAMBDA h : h = st)) <= 1

\* C6 as claimed: a sync call requesting the state its own direction is
\* already in is a no-op, and no step generator is ever registered twice.
C6_SameStateNoOpAlways ==
    /\ [][SameStateRequest => (last_err' = "" /\ C6_State' = C6_State)]_vars
    /\ []NoDoubleRegistration

\* C6 as amended: it is a no-op when the opposite direction is not engaged
\* (otherwise the call first undoes the opposite direction).
C6_SameStateNoOp ==
    /\ [][(SameStateRequest /\ ~OppositeEngaged)
             => (last_err' = "" /\ C6_State' = C6_State)]_vars
    /\ []NoDoubleRegistration

\* sync_gear_to_extruder(name) was called while the gear was already synced:
\* the call flushed and returned.
C6_Witness ==
    /\ last_op.op = "sync_gear_to_extruder"
    /\ last_op.name \in ValidExtruders
    /\ gear_motion_queue # None
    /\ Len(events) = 2

\* How many times x occurs in a list.
Count(list, x) == Cardinality({i \in 1..Len(list) : list[i] = x})

\* The steppers the sync protocol hands over.
HandedOver == Range(rail_steppers[GearRail]) \cup Range(GearSteppers) \cup ValidExtruders

\* C16: each gear-rail stepper's and each extruder stepper's step generator
\* is registered in exactly one of the two controllers' step-generator sets,
\* and that controller is the one whose trapezoidal queue the stepper is
\* bound to (the queue the object it holds generates steps from), after
\* successful and failing sync calls alike.
C16_ExclusiveOwnership ==
    \A st \in HandedOver :
        /\ Count(step_generators, st) + Count(printer_step_generators, st) = 1
        /\ (st \in Range(step_generators)) <=> (bound_trapq[st] = mmu_trapq)

\* A sync call failed after it had moved step generators between the two
\* toolheads (undoing the opposite direction).
C16_Witness ==
    /\ last_op.op \in SyncOps
    /\ last_err # ""
    /\ \E i \in 1..Len(events) :
          events[i].e \in {"register_mmu", "register_printer"}

GearBoundToExtruder ==
    \E name \in ValidExtruders :
        \A st \in Range(GearSteppers) :
            SkKind(sk[st]) = "extruder" /\ bound_trapq[st] = extruder_trapq(name)

ExtruderAttached ==
    LET steppers == rail_steppers[GearRail]
    IN  /\ Len(steppers) = Len(GearSteppers) + 1
        /\ SubSeq(steppers, 1, Len(GearSteppers)) = GearSteppers
        /\ steppers[Len(steppers)] \in ValidExtruders
        /\ bound_trapq[steppers[Len(steppers)]] = mmu_trapq

\* C17: the sync flags agree with the bindings: the gear-sync field is
\* non-null exactly when the gear rail's steppers use the extruder kinematic
\* function and that extruder's queue; the extruder-sync field is non-null
\* exactly when the extruder's stepper is the extra last element of the gear
\* rail's stepper list and is bound to the MMU toolhead's queue; when both
\* are null the gear rail holds only its own steppers on the MMU queue.  The
\* queue a stepper is bound to is the one the object it holds reads.
C17_FlagsAgree ==
    /\ (gear_motion_queue # None) <=> GearBoundToExtruder
    /\ gear_motion_queue # None =>
          \A st \in Range(GearSteppers) :
              bound_trapq[st] = extruder_trapq(gear_motion_queue)
    /\ (extruder_synced_to_gear # None) <=> ExtruderAttached
    /\ extruder_synced_to_gear # None =>
          rail_steppers[GearRail] = Append(GearSteppers, extruder_synced_to_gear)
    /\ (gear_motion_queue = None /\ extruder_synced_to_gear = None) =>
          /\ rail_steppers[GearRail] = GearSteppers
          /\ \A st \in Range(GearSteppers) : bound_trapq[st] = mmu_trapq

\* The extruder has just been attached to the gear rail, taking the place
\* of a gear-to-extruder sync.
C17_Witness ==
    /\ last_op.op = "sync_extruder_to_gear"
    /\ extruder_synced_to_gear # None
    /\ ExtruderAttached
    /\ \E i \in 1..Len(events) : events[i].e = "set_trapq" /\ events[i].call = 1

----------------------------------------------------------------------------
(* Properties of the kinematics (specification SpecKin) *)

\* get_status: 'selector_homed'
selector_homed == limits[SelectorRail][1] <= limits[SelectorRail][2]

AxisHomed(i) == limits[i][1] <= limits[i][2]

\* The last call made a set_position whose homing_axes contains axis 0.
SetsAxis0(evs) ==
    \E i \in 1..Len(evs) : evs[i].e = "set_position" /\ evs[i].v[1] = 1

\* C7: after a motor-off event selector_homed is false, whatever it was, and
\* stays false until a set_position whose homing_axes contains axis 0; while
\* it is false every move that displaces the selector raises "Must home axis
\* first", whatever its target.
C7_MotorOffUnhomes ==
    /\ [][/\ last_op'.op = "motor_off" => ~selector_homed'
          /\ (~selector_homed /\ ~SetsAxis0(events')) => ~selector_homed']_vars
    /\ [](~selector_homed =>
            \A newpos \in MoveTargets :
                newpos[1] # commanded_pos[1] =>
                    toolhead_move(Cur, newpos, "move").err = "Must home axis first")

\* Motor off has just un-homed a selector that was homed.
C7_Witness ==
    /\ last_op.op = "motor_off"
    /\ last_op.was_homed
    /\ ~selector_homed

\* About the move the last call asked for (limits are not changed by a move).
MoveDisplaces(i) == last_op.pos[i] # last_op.from[i]
Outside(i) == last_op.pos[i] < limits[i][1] \/ last_op.pos[i] > limits[i][2]
OutOfRangeAxes == {i \in 1..2 : MoveDisplaces(i) /\ AxisHomed(i) /\ Outside(i)}
MustHomeAxes == {i \in 1..2 : MoveDisplaces(i) /\ ~AxisHomed(i) /\ Outside(i)}

\* C8 as claimed: for a move displacing an axis whose limits are homed, a
\* target outside [min, max] raises the generic travel-limit error and a
\* target inside raises none; a target outside un-homed limits raises "Must
\* home axis first" instead.  Stated for either axis.
C8_DistinguishesEitherAxis ==
    last_op.op = "move" =>
        /\ (OutOfRangeAxes = {} /\ MustHomeAxes = {}) => last_err = ""
        /\ (OutOfRangeAxes # {} /\ MustHomeAxes = {}) => last_err = "Move out of range"
        /\ (OutOfRangeAxes = {} /\ MustHomeAxes # {}) => last_err = "Must home axis first"
        /\ (OutOfRangeAxes # {} /\ MustHomeAxes # {}) =>
               last_err \in {"Move out of range", "Must home axis first"}

\* The distinction check_move makes for axis i.
Distinguishes(i) ==
    /\ (AxisHomed(i) /\ Outside(i)) => last_err = "Move out of range"
    /\ (AxisHomed(i) /\ ~Outside(i)) => last_err = ""
    /\ (~AxisHomed(i) /\ Outside(i)) => last_err = "Must home axis first"

\* C8 as amended: the distinction is made for a move displacing the selector,
\* and for the gear axis only when the selector's end position is outside the
\* selector's limits (and the selector itself is not displaced).
C8_Distinguishes ==
    last_op.op = "move" =>
        /\ MoveDisplaces(SelectorRail) => Distinguishes(SelectorRail)
        /\ (MoveDisplaces(GearRail) /\ ~MoveDisplaces(SelectorRail)
              /\ Outside(SelectorRail)) => Distinguishes(GearRail)

\* A move of a homed selector beyond its range was refused as out of range.
C8_Witness ==
    /\ last_op.op = "move"
    /\ MoveDisplaces(SelectorRail)
    /\ AxisHomed(SelectorRail) /\ Outside(SelectorRail)
    /\ last_err = "Move out of range"

\* The (velocity, accel) pairs the last call passed to move.limit_speed.
LimitCalls ==
    LET calls == SelectSeq(events, LAMBDA ev : ev.e = "limit_speed")
    IN  [i \in 1..Len(calls) |-> calls[i].v]

\* C9: a move that passes bounds checking gets exactly one speed ceiling: the
\* selector's when it displaces the selector (also when it displaces the gear
\* too), the gear's when it displaces only the gear, none when it displaces
\* neither.
C9_SpeedCeiling ==
    (last_op.op = "move" /\ last_err = "") =>
        LimitCalls =
            IF MoveDisplaces(SelectorRail)
            THEN <<<<selector_max_velocity, selector_max_accel>>>>
            ELSE IF MoveDisplaces(GearRail)
            THEN <<<<gear_max_velocity, gear_max_accel>>>>
            ELSE <<>>

\* An accepted move displaced both axes and was capped at the selector's
\* ceiling.
C9_Witness ==
    /\ last_op.op = "move" /\ last_err = ""
    /\ MoveDisplaces(SelectorRail) /\ MoveDisplaces(GearRail)
    /\ LimitCalls = <<<<selector_max_velocity, selector_max_accel>>>>

\* Everything MmuKinematics.home could touch.
C10_State ==
    <<commanded_pos, limits, sk_pos, sk, trapq, sk_trapq, sk_stepq, rail_steppers,
      step_generators, printer_step_generators>>

HomeRailsCalls(evs) == SelectSeq(evs, LAMBDA ev : ev.e = "home_rails_begin")

\* C10: home() does nothing for an axis other than the selector: a request
\* naming only such axes queries no rail, calls no home_rails, issues no move
\* and changes nothing; in any request only axis 0 reaches home_rails and
\* only the selector rail is queried, and the gear axis's limits are left as
\* they were (un-homed stays un-homed).
C10_OnlySelectorHomes ==
    [][last_op'.op = "home" =>
         /\ limits'[GearRail] = limits[GearRail]
         /\ \A i \in 1..Len(events') :
               events'[i].e \in {"home_rails_begin", "get_range", "get_homing_info"}
                   => events'[i].a = "selector"
         /\ Len(HomeRailsCalls(events'))
                <= Len(SelectSeq(last_op'.axes, LAMBDA a : a = 0))
         /\ 0 \notin Range(last_op'.axes) =>
               (events' = <<>> /\ last_err' = "" /\ C10_State' = C10_State)
      ]_vars

\* A request for all three axes homed the selector and left the gear axis
\* un-homed.
C10_Witness ==
    /\ last_op.op = "home" /\ last_op.axes = <<0, 1, 2>>
    /\ last_err = ""
    /\ Len(HomeRailsCalls(events)) = 1
    /\ selector_homed
    /\ limits[GearRail] = Unhomed

----------------------------------------------------------------------------
(* Properties of homing (specification SpecKin) *)

\* The last call was a home() that reached home_rails.
HomedRails == last_op.op = "home" /\ Len(HomeRailsCalls(events)) = 1

\* The homing moves and ordinary moves home_rails issued, in order.
HomingSteps ==
    LET steps == SelectSeq(events, LAMBDA ev : ev.e \in {"homing_move", "move"})
    IN  [i \in 1..Len(steps) |-> steps[i].e]

\* C11 as claimed: a home_rails invocation issues exactly one homing move and
\* no retract move when retract_dist is 0, and exactly two homing moves with
\* one retract move between them when retract_dist > 0.
C11_PassesEveryInvocation ==
    HomedRails =>
        HomingSteps = IF cfg.retract_dist = 0 THEN <<"homing_move">>
                      ELSE <<"homing_move", "move", "homing_move">>

\* C11 as amended: one homing move and no retract when retract_dist is 0,
\* when the approach fails, or when the retract move is refused because the
\* selector was un-homed while the approach waited; two homing moves with
\* one retract move between them when retract_dist > 0, the approach
\* succeeds and the retract move is accepted; never a third homing move,
\* whatever the endstops do.
C11_Passes ==
    HomedRails =>
        HomingSteps = IF \/ cfg.retract_dist = 0
                         \/ last_op.hw.move1 # "ok"
                         \/ last_err = "Must home axis first"
                      THEN <<"homing_move">>
                      ELSE <<"homing_move", "move", "homing_move">>

\* A rail with a retract distance was homed in two passes although the
\* endstop was still triggered after the second.
C11_Witness ==
    /\ HomedRails
    /\ cfg.retract_dist > 0
    /\ last_op.hw.no_movement
    /\ HomingSteps = <<"homing_move", "move", "homing_move">>

\* The completion steps of home_rails (lines 369-384) in a call log.
CompletionSteps(evs) ==
    LET last == CHOOSE k \in 0..Len(evs) :
                    /\ k > 0 => evs[k].e = "homing_move"
                    /\ \A j \in (k + 1)..Len(evs) : evs[j].e # "homing_move"
        tail == SubSeq(evs, last + 1, Len(evs))
    IN  SelectSeq(tail, LAMBDA ev : ev.e \in {"home_rails_end"})

\* The second pass ran and its endstop was still triggered afterwards.
StillTriggered(op, evs) ==
    /\ op.op = "home"
    /\ Len(HomeRailsCalls(evs)) = 1
    /\ Len(SelectSeq(evs, LAMBDA ev : ev.e = "homing_move")) = 2
    /\ op.hw.move2 = "ok"
    /\ op.hw.no_movement

\* C12 as claimed: when retract_dist > 0 and an endstop is still triggered
\* after the retract and re-approach, home_rails fails with the "still
\* triggered" error, the completion steps do not run, and the controller's
\* position and the limits are what they were before the homing invocation
\* (compared for invocations during whose waits no other callback ran).
C12_FailureLeavesNoCommit ==
    (StillTriggered(last_op, events) /\ last_op.alone) =>
        /\ last_err = "Endstop still triggered after retract"
        /\ CompletionSteps(events) = <<>>
        /\ commanded_pos = last_op.from
        /\ limits = last_op.from_limits

\* The part of C12 the code keeps: the error is raised and the completion
\* steps do not run.
C12_FailsWithoutCompletion ==
    StillTriggered(last_op, events) =>
        /\ last_err = "Endstop still triggered after retract"
        /\ CompletionSteps(events) = <<>>

\* The steps of the last call in order, without the speed ceilings and the
\* rail queries of home().
HomingOrder ==
    LET steps == SelectSeq(events, LAMBDA ev :
                     ev.e \notin {"limit_speed", "get_range", "get_homing_info",
                                  "HomingMove"})
    IN  [i \in 1..Len(steps) |-> <<steps[i].e, steps[i].a>>]

\* toolhead.set_position: a flush, then the kinematics' set_position.
SetPositionSteps == << <<"flush_step_generation", "mmu">>, <<"set_position", "">> >>

\* A homing move: drip move, then the toolhead is put at the move's end.
HomingMoveSteps(speed) ==
    << <<"homing_move", speed>>, <<"drip_move", "">> >> \o SetPositionSteps

\* forcepos as home() computes it for the selector, in half millimetres.
SelectorForcePos ==
    IF cfg.positive_dir
    THEN cfg.position_endstop - (3 * (cfg.position_endstop - cfg.position_min)) \div 2
    ELSE cfg.position_endstop + (3 * (cfg.position_max - cfg.position_endstop)) \div 2

\* The first set_position of the last call.
FirstSetPosition ==
    LET k == CHOOSE i \in 1..Len(events) :
                 /\ events[i].e = "set_position"
                 /\ \A j \in 1..(i - 1) : events[j].e # "set_position"
    IN  events[k].v

\* C20: in a homing invocation that completes, home_rails_begin is
\* announced, the believed position is forced to forcepos with the homed
\* axes marked, the approach runs at the homing speed, (when retract_dist >
\* 0) the retract move and the re-approach at the second-pass speed run,
\* step generation is flushed, home_rails_end is announced, and only then a
\* corrected position is committed through set_position, exactly when some
\* adjust_pos entry is non-zero.
C20_HomingOrder ==
    (HomedRails /\ last_err = "") =>
        /\ HomingOrder =
              << <<"home_rails_begin", "selector">> >>
              \o SetPositionSteps
              \o HomingMoveSteps("speed")
              \o (IF cfg.retract_dist > 0
                  THEN << <<"move", "">> >> \o SetPositionSteps
                       \o HomingMoveSteps("second_homing_speed")
                  ELSE <<>>)
              \o << <<"flush_step_generation", "mmu">>, <<"home_rails_end", "">> >>
              \o (IF AnyAdjust(last_op.hw.adjust_pos) THEN SetPositionSteps
                  ELSE <<>>)
        /\ FirstSetPosition =
              <<1, 0, SelectorForcePos, last_op.from[2], last_op.from[3], last_op.from[4]>>

\* A two-pass homing completed and committed a corrected position.
C20_Witness ==
    /\ HomedRails /\ last_err = ""
    /\ cfg.retract_dist > 0
    /\ AnyAdjust(last_op.hw.adjust_pos)
    /\ HomingOrder[Len(HomingOrder)] = <<"set_position", "">>

----------------------------------------------------------------------------
(* Properties of get_status (specification SpecStatus) *)

\* C15: in every reachable state get_status returns, without error, a
\* snapshot in which selector_homed is true exactly when limits[0].min <=
\* limits[0].max, gear_synced_to_extruder equals is_gear_synced_to_extruder(),
\* extruder_synced_to_gear equals is_extruder_synced_to_gear(), together with
\* filament_pos.
C15_StatusSnapshot ==
    last_op.op = "get_status" =>
        /\ last_err = ""
        /\ Len(events) = 1
        /\ events[1].e = "status"
        /\ events[1].v = <<BoolInt(selector_homed),
                           BoolInt(gear_motion_queue # None),
                           BoolInt(extruder_synced_to_gear # None),
                           commanded_pos[2]>>

----------------------------------------------------------------------------
(* Properties of the rails' endstops (specification SpecRail) *)

BothRails == {SelectorRail, GearRail}

\* The extra endstops of a rail whose pin denotes a virtual sensor.
VirtualExtras(rail) ==
    {i \in 1..Len(rails[rail].extra_endstops) :
        IsVirtualPin(mcu_endstops[rails[rail].extra_endstops[i].es].pin)}

Registered(es) == \E i \in 1..Len(query_endstops) : query_endstops[i].es = es

\* What C13 says of the extra endstop at position i of a rail.
RecordedVirtual(rail, i) ==
    /\ rails[rail].extra_endstops[i].name \in Range(rails[rail].virtual_endstops)
    /\ ~Registered(rails[rail].extra_endstops[i].es)

\* C13: for every add_extra_endstop(pin, name) whose pin denotes a virtual
\* sensor, made from configuration or directly, the name is recorded as
\* virtual and the endstop is not registered with query_endstops, while it
\* is added to the rail's extra endstops.
C13_VirtualNeverRegistered ==
    /\ \A rail \in BothRails : \A i \in VirtualExtras(rail) : RecordedVirtual(rail, i)
    /\ last_op.op = "add_extra_endstop" =>
          LET extras == rails[last_op.axes[1] + 1].extra_endstops
          IN  extras # <<>> /\ extras[Len(extras)].name = last_op.name

\* The part of C13 the code keeps: virtual extra endstops that come from
\* the configuration are recorded as virtual and not registered.
C13_FromConfiguration ==
    \A rail \in BothRails : \A i \in VirtualExtras(rail) :
        rails[rail].extra_endstops[i].name \notin DirectNames
            => RecordedVirtual(rail, i)

\* The sections whose two extra-endstop lists differ in length.
Mismatched ==
    {x \in BothRails \X (1..2) :
        /\ x[2] <= Len(sections[x[1]])
        /\ Len(sections[x[1]][x[2]].extra_endstop_pins)
               # Len(sections[x[1]][x[2]].extra_endstop_names)}

\* No extra endstop of the rail was made from a pin of this section.
NoneAdded(x) ==
    \A i \in 1..Len(rails[x[1]].extra_endstops) :
        mcu_endstops[rails[x[1]].extra_endstops[i].es].pin
            \notin Range(sections[x[1]][x[2]].extra_endstop_pins)

\* C14: whenever extra_endstop_pins and extra_endstop_names of a rail
\* section have different lengths (including when one of them is empty),
\* rail construction fails with a configuration error and no extra endstop
\* from that section is added.
C14_MismatchIsFatal ==
    (last_op.op = "construct" /\ Mismatched # {}) =>
        /\ last_err # ""
        /\ \A x \in Mismatched : NoneAdded(x)

\* The part of C14 the code keeps: a section with more or fewer names than
\* its (non-empty) list of pins stops the construction, with none of its
\* extra endstops added.
C14_MismatchWithPins ==
    \A x \in Mismatched :
        (last_op.op = "construct"
            /\ sections[x[1]][x[2]].extra_endstop_pins # <<>>) =>
                /\ last_err # ""
                /\ NoneAdded(x)

\* The physical endstops of a rail, default and extra.
PhysicalEndstops(rail) ==
    {e \in Range(rails[rail].endstops) \cup Range(rails[rail].extra_endstops) :
        e.es # MockEndstop /\ ~IsVirtualPin(mcu_endstops[e.es].pin)}

\* C18: every stepper in a rail's stepper list has every physical endstop
\* of the rail (default and extra) registered to trigger on it, after
\* construction and while the extruder's stepper is attached to the gear
\* rail.
C18_EndstopsOnEveryStepper ==
    phase = "ready" =>
        \A rail \in BothRails :
            \A st \in Range(rail_steppers[rail]) :
                \A e \in PhysicalEndstops(rail) :
                    st \in Range(mcu_endstops[e.es].steppers)

\* The endstop lists the last call gave to its homing moves.
Watched ==
    LET made == SelectSeq(events, LAMBDA ev : ev.e = "HomingMove")
    IN  [i \in 1..Len(made) |-> made[i].v]

Handles(list) == [i \in 1..Len(list) |-> list[i].es]

\* C19 as claimed: both homing moves of home_rails watch every endstop of
\* the rail being homed, from the default set and from the extra set.
C19_WatchesAllEndstops ==
    HomedRails =>
        \A i \in 1..Len(Watched) :
            Range(Watched[i]) =
                Range(Handles(rails[SelectorRail].endstops))
                    \cup Range(Handles(rails[SelectorRail].extra_endstops))

\* C19 as amended: both homing moves of home_rails watch the same endstops,
\* the default endstops of the rail being homed (rail.get_endstops()); the
\* rail's extra endstops are not among them.
C19_WatchesDefaultEndstops ==
    HomedRails =>
        /\ Len(Watched) = Len(SelectSeq(events, LAMBDA ev : ev.e = "homing_move"))
        /\ \A i \in 1..Len(Watched) :
              /\ Watched[i] = Handles(rails[SelectorRail].endstops)
              /\ Range(Watched[i])
                    \cap Range(Handles(rails[SelectorRail].extra_endstops)) = {}

\* A selector with an extra endstop was homed in two passes.
C19_Witness ==
    /\ HomedRails /\ last_err = ""
    /\ rails[SelectorRail].extra_endstops # <<>>
    /\ Len(Watched) = 2

----------------------------------------------------------------------------
(* Properties of MmuKinematics.home (specification SpecHome) *)

\* The set_position calls of the last call, in order.
SetPositions == SelectSeq(events, LAMBDA ev : ev.e = "set_position")

\* The selector entry of the forcepos home_rails was given: home_rails
\* forces the toolhead there before the first homing move.
ForcePosPassed == SetPositions[1].v[3]

\* The selector entry of the homepos home_rails was given: the target of
\* the first homing move, where the toolhead is set when the move triggers
\* and where the move has taken it when it does not.
HomePosPassed ==
    IF Len(SetPositions) >= 2 THEN SetPositions[2].v[3] ELSE commanded_pos[1]

\* Distances in half millimetres; 1.5 times an even distance is whole.
NearerBoundDistance ==
    IF cfg.position_endstop - cfg.position_min <= cfg.position_max - cfg.position_endstop
    THEN cfg.position_endstop - cfg.position_min
    ELSE cfg.position_max - cfg.position_endstop

\* The distance to the bound the homing move travels away from.
BoundBehindDistance ==
    IF cfg.positive_dir
    THEN cfg.position_endstop - cfg.position_min
    ELSE cfg.position_max - cfg.position_endstop

\* pos offset by 1.5 times d, against the homing direction.
OffsetAway(pos, d) ==
    IF cfg.positive_dir THEN pos - (3 * d) \div 2 ELSE pos + (3 * d) \div 2

\* C21 as claimed: for the selector, home passes home_rails a homepos equal
\* to the endstop's configured position and a forcepos offset from it, away
\* from the homing direction, by 1.5 times the distance from the endstop's
\* configured position to the nearer travel-limit bound.
C21_ForcePosFromNearerBound ==
    HomedRails =>
        /\ HomePosPassed = cfg.position_endstop
        /\ ForcePosPassed = OffsetAway(cfg.position_endstop, NearerBoundDistance)

\* C21 as amended: for the selector, home passes home_rails a homepos equal
\* to the endstop's configured position and a forcepos offset from it, away
\* from the homing direction, by 1.5 times the distance from the endstop's
\* configured position to the travel-limit bound behind the homing move
\* (position_min when homing in the positive direction, position_max
\* otherwise), whichever bound is nearer.
C21_ForcePosFromBoundBehind ==
    HomedRails =>
        /\ HomePosPassed = cfg.position_endstop
        /\ ForcePosPassed = OffsetAway(cfg.position_endstop, BoundBehindDistance)

\* The selector was homed with its endstop strictly inside the range and
\* nearer to the bound it homes towards than to the bound behind.
C21_Witness ==
    /\ HomedRails /\ last_err = ""
    /\ cfg.position_min < cfg.position_endstop
    /\ cfg.position_endstop < cfg.position_max
    /\ NearerBoundDistance < BoundBehindDistance

----------------------------------------------------------------------------
(* The key of bounds checking (specification SpecKin) *)

\* x is inside the selector's limits.
InsideSelectorLimits(x) ==
    limits[SelectorRail][1] <= x /\ x <= limits[SelectorRail][2]

\* C22: check_move bounds-checks a move only when the selector's end
\* position lies outside the selector's limits: whenever the selector end
\* position is inside them, check_move raises no travel-limit or must-home
\* error for any gear-axis target, whether or not the gear axis's limits are
\* homed.
C22_CheckKeyedOnSelector ==
    /\ \A newpos \in MoveTargets :
          InsideSelectorLimits(newpos[1]) =>
              check_move(limits, MakeMove(commanded_pos, newpos)).err = ""
    /\ (last_op.op = "move" /\ InsideSelectorLimits(last_op.pos[1])) =>
          last_err = ""

\* A move ending inside the selector's limits took the gear axis beyond its
\* homed limits and was accepted.
C22_Witness ==
    /\ last_op.op = "move" /\ last_err = ""
    /\ InsideSelectorLimits(last_op.pos[1])
    /\ MoveDisplaces(GearRail)
    /\ AxisHomed(GearRail) /\ Outside(GearRail)
    /\ commanded_pos = last_op.pos

----------------------------------------------------------------------------
(* Re-zeroing on disengagement (specification Spec) *)

\* What a sync call may do to the commanded position of stepper st: zero it
\* when it disengages the sync st was part of, or give it the donor's
\* position when it engages st (continuity; that position is 0 only when the
\* donor's is).
Rezeroed(st) ==
    \/ /\ st \in Range(GearSteppers)
       /\ gear_motion_queue # None /\ gear_motion_queue' = None
       /\ cpos'[st] = 0
    \/ /\ st = extruder_synced_to_gear /\ extruder_synced_to_gear' # st
       /\ cpos'[st] = 0

HandedOn(st) ==
    \/ /\ st \in Range(GearSteppers)
       /\ gear_motion_queue = None /\ gear_motion_queue' # None
       /\ cpos'[st] = last_position[gear_motion_queue']
    \/ /\ st = extruder_synced_to_gear' /\ extruder_synced_to_gear # st
       /\ cpos'[st] = cpos'[GearSteppers[1]]

\* C23: disengaging re-zeroes the abandoned side.  After
\* sync_gear_to_extruder(None) disengages a gear sync the gear rail's
\* commanded position is 0; after sync_extruder_to_gear(None) disengages an
\* extruder sync the extruder stepper's commanded position is 0 and the gear
\* rail's is unchanged; no other sync call path resets a position to 0: a
\* sync call changes a stepper's position only by such a disengagement
\* (requested, or made first by a call of the opposite direction) or by
\* handing the donor's position on at an engagement.
C23_DisengageRezeroes ==
    [][/\ Disengages("sync_gear_to_extruder")
          => \A i \in 1..Len(rail_steppers'[GearRail]) :
                cpos'[rail_steppers'[GearRail][i]] = 0
       /\ Disengages("sync_extruder_to_gear")
          => /\ cpos'[extruder_synced_to_gear] = 0
             /\ \A st \in Range(GearSteppers) : cpos'[st] = cpos[st]
       /\ last_op'.op \in SyncOps
          => \A st \in AllSteppers :
                cpos'[st] # cpos[st] => (Rezeroed(st) \/ HandedOn(st))
      ]_vars

\* sync_gear_to_extruder(None) has just disengaged a gear rail that stood
\* at the extruders' position, away from 0.
C23_Witness ==
    /\ last_op.op = "sync_gear_to_extruder" /\ last_op.name = None
    /\ ReboundItself /\ last_err = ""
    /\ \A e \in ValidExtruders : last_position[e] = MaxLastPosition
    /\ \A st \in Range(GearSteppers) : cpos[st] = 0

====
